---- MODULE Spec2Model ----
(***************************************************************************)
(* Model of the CoFarm monitoring core:                                    *)
(*   - the node infection monitor (lib/infection),                         *)
(*   - the critical alert engine (lib/alertEngine),                        *)
(*   - the dashboard's cross-client alert exchange over the alerts table   *)
(*     (app/dashboard/page.tsx).                                           *)
(*                                                                         *)
(* Units.  Sensor values are integers: tVOC in ug/m3, humidity in %,       *)
(* temperature in degrees C, tension in kPa, soil moisture in 1/100 m3/m3  *)
(* (0.10 is 10), soil pH in 1/10 pH (4.8 is 48).  Latitudes are in         *)
(* micro-degrees, distances in millimetres.                                *)
(***************************************************************************)
EXTENDS Integers, Sequences, FiniteSets, TLC

VARIABLES
  states,   \* InfectionStateManager.states : Map<nodeId, InfectionState>
  last,     \* record of the last call made on the infection monitor
  nodeTable, \* the nodes table: list of NodeData
  call,     \* record of the last call made on the alert engine
  rows,     \* the alerts table of the store
  requests, \* store requests issued by the clients and not yet executed
  responses, \* store responses on their way back to the issuing client
  queue,    \* per client: realtime events not yet delivered, in commit order
  client,   \* per client: the dashboard page's React state
  budget,   \* how many more requests and effect runs the model allows
  step      \* record of the last dashboard step

healthVars == <<states, last>>

engineVars == <<nodeTable, call>>

dashVars == <<rows, requests, responses, queue, client, budget, step>>

vars == <<states, last, nodeTable, call, rows, requests, responses, queue,
          client, budget, step>>

-----------------------------------------------------------------------------
(* Bounds *)

MaxTime == 2

MaxNodes == 3

MaxRuns == 2

NodeIds == {"n1", "n2"}

SimTimes == 1..MaxTime

-----------------------------------------------------------------------------
(* lib/infection/types (in monitor.ts): InfectionConfig *)

DEFAULT_INFECTION_CONFIG ==
  [tvocThreshold |-> 90,
   lowHumidityThreshold |-> 20,
   lowSoilMoistureThreshold |-> 10,
   tvocRecoveryThreshold |-> 80,
   humidityRecoveryThreshold |-> 25,
   soilMoistureRecoveryThreshold |-> 15]

\* A caller-supplied configuration whose tVOC recovery threshold lies above
\* the infection threshold (the config parameter is free).
LooseRecoveryConfig ==
  [DEFAULT_INFECTION_CONFIG EXCEPT !.tvocRecoveryThreshold = 130]

Configs == {DEFAULT_INFECTION_CONFIG, LooseRecoveryConfig}

\* The absent optional field infectedAt?: string
NoTime == 0

\* The empty string as a currentSimTime (times are strings in the code; the
\* model's other times are 1, 2, ...)
EmptyTime == -1

\* if (currentState.infectedAt): undefined and '' are falsy
Truthy(t) == t # NoTime /\ t # EmptyTime

\* The values of currentSimTime
TimeInputs == SimTimes \cup {EmptyTime}

\* The record of "no call made yet"
NoCall == [op |-> "none"]

\* A reading that getCurrentReading did not deliver (undefined)
NoReading == [undefined |-> TRUE]

TvocValues == {40, 80, 90, 125}
HumidityValues == {15, 20, 25, 55}
MoistureValues == {5, 10, 15, 30}

Readings ==
  [tvoc_ugm3 : TvocValues,
   relative_humidity_pct : HumidityValues,
   soil_moisture_m3m3 : MoistureValues]

\* The readings fed to a whole-fleet tick
FleetReadings ==
  {[tvoc_ugm3 |-> 40, relative_humidity_pct |-> 55, soil_moisture_m3m3 |-> 30],
   [tvoc_ugm3 |-> 125, relative_humidity_pct |-> 55, soil_moisture_m3m3 |-> 30]}

-----------------------------------------------------------------------------
(* lib/infection/detection.ts *)

\* detectInfectionTriggers with inclusive comparisons
detectInfectionTriggersInclusive(reading, config) ==
  (IF reading.tvoc_ugm3 >= config.tvocThreshold
     THEN <<[type |-> "tvoc_critical", field |-> "tvoc_ugm3",
             value |-> reading.tvoc_ugm3, threshold |-> config.tvocThreshold,
             severity |-> "critical"]>>
     ELSE <<>>)
  \o
  (IF reading.relative_humidity_pct <= config.lowHumidityThreshold
     THEN <<[type |-> "low_humidity", field |-> "relative_humidity_pct",
             value |-> reading.relative_humidity_pct,
             threshold |-> config.lowHumidityThreshold,
             severity |-> "severe"]>>
     ELSE <<>>)
  \o
  (IF reading.soil_moisture_m3m3 <= config.lowSoilMoistureThreshold
     THEN <<[type |-> "low_soil_moisture", field |-> "soil_moisture_m3m3",
             value |-> reading.soil_moisture_m3m3,
             threshold |-> config.lowSoilMoistureThreshold,
             severity |-> "critical"]>>
     ELSE <<>>)

detectInfectionTriggers(reading, config) ==
  (IF reading.tvoc_ugm3 > config.tvocThreshold
     THEN <<[type |-> "tvoc_critical", field |-> "tvoc_ugm3",
             value |-> reading.tvoc_ugm3, threshold |-> config.tvocThreshold,
             severity |-> "critical"]>>
     ELSE <<>>)
  \o
  (IF reading.relative_humidity_pct < config.lowHumidityThreshold
     THEN <<[type |-> "low_humidity", field |-> "relative_humidity_pct",
             value |-> reading.relative_humidity_pct,
             threshold |-> config.lowHumidityThreshold,
             severity |-> "severe"]>>
     ELSE <<>>)
  \o
  (IF reading.soil_moisture_m3m3 < config.lowSoilMoistureThreshold
     THEN <<[type |-> "low_soil_moisture", field |-> "soil_moisture_m3m3",
             value |-> reading.soil_moisture_m3m3,
             threshold |-> config.lowSoilMoistureThreshold,
             severity |-> "critical"]>>
     ELSE <<>>)

shouldNodeBeInfected(currentReading, config) ==
  LET triggers == detectInfectionTriggers(currentReading, config)
  IN [infected |-> Len(triggers) > 0, triggers |-> triggers]

\* The number of "still not normal" reasons collected by shouldNodeRecover
RecoveryReasons(currentReading, config) ==
  (IF currentReading.tvoc_ugm3 >= config.tvocRecoveryThreshold THEN 1 ELSE 0)
  + (IF currentReading.relative_humidity_pct <= config.humidityRecoveryThreshold
       THEN 1 ELSE 0)
  + (IF currentReading.soil_moisture_m3m3 <= config.soilMoistureRecoveryThreshold
       THEN 1 ELSE 0)

shouldNodeRecoverLax(currentReading, infectionStartTime, currentSimTime, config) ==
  [shouldRecover |-> ~(RecoveryReasons(currentReading, config) > 1)]

shouldNodeRecover(currentReading, infectionStartTime, currentSimTime, config) ==
  [shouldRecover |-> ~(RecoveryReasons(currentReading, config) > 0)]

-----------------------------------------------------------------------------
(* lib/infection/stateManager.ts: the methods as functions of the map *)

OnlineState == [status |-> "online", infectedAt |-> NoTime,
                triggers |-> <<>>, anomalyCount |-> 0]

\* Map.set
MapSet(m, k, v) == [x \in (DOMAIN m) \cup {k} |-> IF x = k THEN v ELSE m[x]]

getState(st, nodeId) ==
  IF nodeId \in DOMAIN st THEN st ELSE MapSet(st, nodeId, OnlineState)

\* setInfected that leaves the timestamp out
setInfectedUnstamped(st, nodeId, triggers, currentTime) ==
  MapSet(st, nodeId,
         [status |-> "infected", infectedAt |-> NoTime,
          triggers |-> triggers, anomalyCount |-> Len(triggers)])

setInfected(st, nodeId, triggers, currentTime) ==
  MapSet(st, nodeId,
         [status |-> "infected", infectedAt |-> currentTime,
          triggers |-> triggers, anomalyCount |-> Len(triggers)])

\* setOnline that changes the status of the existing record only
setOnlineKeepingTriggers(st, nodeId) ==
  MapSet(st, nodeId,
         [(IF nodeId \in DOMAIN st THEN st[nodeId] ELSE OnlineState)
            EXCEPT !.status = "online"])

setOnline(st, nodeId) == MapSet(st, nodeId, OnlineState)

\* setAtRisk that writes a fresh record the way setOnline does
setAtRiskClearing(st, nodeId) ==
  MapSet(st, nodeId, [OnlineState EXCEPT !.status = "at_risk"])

setAtRisk(st, nodeId) ==
  LET s1 == getState(st, nodeId)
  IN MapSet(s1, nodeId, [s1[nodeId] EXCEPT !.status = "at_risk"])

setOffline(st, nodeId) ==
  LET s1 == getState(st, nodeId)
  IN MapSet(s1, nodeId, [s1[nodeId] EXCEPT !.status = "offline"])

\* new Map(this.states): a Map object of its own, holding the entries the
\* store holds at the time of the call
getAllStates(st) == [map |-> "new Map", entries |-> st]

-----------------------------------------------------------------------------
(* lib/infection/monitor.ts *)

\* monitorNodeInfection that renews the trigger list while the node stays infected
monitorNodeInfectionRefreshing(st, nodeId, currentReading, currentSimTime, config) ==
  LET s1 == getState(st, nodeId)
      currentState == s1[nodeId]
  IN IF currentState.status = "infected" /\ Truthy(currentState.infectedAt)
       THEN IF currentReading = NoReading
              THEN [states |-> s1, ret |-> "throw"]
              ELSE IF shouldNodeRecover(currentReading, currentState.infectedAt,
                                        currentSimTime, config).shouldRecover
                     THEN [states |-> setOnline(s1, nodeId), ret |-> "online"]
                     ELSE [states |->
                             MapSet(s1, nodeId,
                               [currentState EXCEPT
                                  !.triggers =
                                     detectInfectionTriggers(currentReading, config),
                                  !.anomalyCount =
                                     Len(detectInfectionTriggers(currentReading,
                                                                 config))]),
                           ret |-> "infected"]
       ELSE IF currentState.status = "online"
              THEN IF currentReading = NoReading
                     THEN [states |-> s1, ret |-> "throw"]
                     ELSE LET r == shouldNodeBeInfected(currentReading, config)
                          IN IF r.infected
                               THEN [states |-> setInfected(s1, nodeId, r.triggers,
                                                            currentSimTime),
                                     ret |-> "infected"]
                               ELSE [states |-> s1, ret |-> currentState.status]
              ELSE [states |-> s1, ret |-> currentState.status]

\* Result of a call: the store afterwards and the returned status, or
\* "throw" when the call raised a TypeError reading a field of undefined.
monitorNodeInfection(st, nodeId, currentReading, currentSimTime, config) ==
  LET s1 == getState(st, nodeId)
      currentState == s1[nodeId]
  IN IF currentState.status = "infected" /\ Truthy(currentState.infectedAt)
       THEN IF currentReading = NoReading
              THEN [states |-> s1, ret |-> "throw"]
              ELSE IF shouldNodeRecover(currentReading, currentState.infectedAt,
                                        currentSimTime, config).shouldRecover
                     THEN [states |-> setOnline(s1, nodeId), ret |-> "online"]
                     ELSE [states |-> s1, ret |-> "infected"]
       ELSE IF currentState.status = "online"
              THEN IF currentReading = NoReading
                     THEN [states |-> s1, ret |-> "throw"]
                     ELSE LET r == shouldNodeBeInfected(currentReading, config)
                          IN IF r.infected
                               THEN [states |-> setInfected(s1, nodeId, r.triggers,
                                                            currentSimTime),
                                     ret |-> "infected"]
                               ELSE [states |-> s1, ret |-> currentState.status]
              ELSE [states |-> s1, ret |-> currentState.status]

\* The for loop of monitorAllNodes from position i on; an exception raised
\* by one call leaves the loop (and the function) at once.
RECURSIVE monitorLoop(_, _, _, _, _, _, _)
monitorLoop(st, statuses, nodes, i, getCurrentReading, currentSimTime, config) ==
  IF i > Len(nodes)
    THEN [states |-> st, statuses |-> statuses, threw |-> FALSE, evaluated |-> i - 1]
    ELSE LET r == monitorNodeInfection(st, nodes[i], getCurrentReading[nodes[i]],
                                       currentSimTime, config)
         IN IF r.ret = "throw"
              THEN [states |-> r.states, statuses |-> statuses, threw |-> TRUE,
                    evaluated |-> i - 1]
              ELSE monitorLoop(r.states, MapSet(statuses, nodes[i], r.ret), nodes,
                               i + 1, getCurrentReading, currentSimTime, config)

\* monitorAllNodes that marks the nodes without a reading offline
monitorAllNodesMarkingOffline(st, nodes, getCurrentReading, currentSimTime, config) ==
  LET r == monitorLoop(st, <<>>, nodes, 1, getCurrentReading, currentSimTime, config)
  IN [r EXCEPT !.states =
        [n \in DOMAIN r.states |->
           IF getCurrentReading[n] = NoReading
             THEN [r.states[n] EXCEPT !.status = "offline"]
             ELSE r.states[n]]]

monitorAllNodes(st, nodes, getCurrentReading, currentSimTime, config) ==
  monitorLoop(st, <<>>, nodes, 1, getCurrentReading, currentSimTime, config)

-----------------------------------------------------------------------------
(* lib/alertConfig.ts *)

ALERT_THRESHOLDS ==
  [pest_outbreak |-> [air_temperature_min |-> 40, relative_humidity_min |-> 85],
   severe_drought |-> [soil_moisture_max |-> 8, soil_water_tension_min |-> 60],
   frost_emergency |-> [air_temperature_max |-> 1],
   chemical_hazard |-> [tvoc_min |-> 450, soil_ph_max |-> 48]]

ALERT_RADIUS_METERS == 100

FALLBACK_RADIUS_METERS == 300

-----------------------------------------------------------------------------
(* lib/alertEngine.ts *)

Null == [null |-> TRUE]

CriticalAlertTypes ==
  {"pest_outbreak", "severe_drought", "frost_emergency", "chemical_hazard"}

\* The id is the template string critical-<node>-<type>; the message keeps
\* the values the template interpolates.  The wall-clock timestamp is left out.
makeCriticalAlert(node, type, message) ==
  [id |-> <<"critical", node.node_id, type>>,
   sourceNodeId |-> node.node_id,
   sourceClusterId |-> node.user_id,
   type |-> type,
   message |-> message,
   lat |-> node.latitude,
   lng |-> node.longitude]

evaluateCriticalAlertFrostFirst(reading, sourceNode) ==
  LET t == ALERT_THRESHOLDS
  IN IF reading.air_temperature_c < t.frost_emergency.air_temperature_max
       THEN makeCriticalAlert(sourceNode, "frost_emergency",
                              <<"FROST EMERGENCY", reading.air_temperature_c>>)
     ELSE IF /\ reading.air_temperature_c > t.pest_outbreak.air_temperature_min
             /\ reading.relative_humidity_pct > t.pest_outbreak.relative_humidity_min
       THEN makeCriticalAlert(sourceNode, "pest_outbreak",
                              <<"PEST OUTBREAK", reading.air_temperature_c,
                                reading.relative_humidity_pct>>)
     ELSE IF /\ reading.tvoc_ugm3 > t.chemical_hazard.tvoc_min
             /\ reading.soil_ph < t.chemical_hazard.soil_ph_max
       THEN makeCriticalAlert(sourceNode, "chemical_hazard",
                              <<"CHEMICAL HAZARD", reading.tvoc_ugm3, reading.soil_ph>>)
     ELSE IF /\ reading.soil_moisture_m3m3 < t.severe_drought.soil_moisture_max
             /\ reading.soil_water_tension_kpa > t.severe_drought.soil_water_tension_min
       THEN makeCriticalAlert(sourceNode, "severe_drought",
                              <<"SEVERE DROUGHT", reading.soil_moisture_m3m3,
                                reading.soil_water_tension_kpa>>)
     ELSE Null

evaluateCriticalAlert(reading, sourceNode) ==
  LET t == ALERT_THRESHOLDS
  IN IF /\ reading.air_temperature_c > t.pest_outbreak.air_temperature_min
        /\ reading.relative_humidity_pct > t.pest_outbreak.relative_humidity_min
       THEN makeCriticalAlert(sourceNode, "pest_outbreak",
                              <<"PEST OUTBREAK", reading.air_temperature_c,
                                reading.relative_humidity_pct>>)
     ELSE IF /\ reading.soil_moisture_m3m3 < t.severe_drought.soil_moisture_max
             /\ reading.soil_water_tension_kpa > t.severe_drought.soil_water_tension_min
       THEN makeCriticalAlert(sourceNode, "severe_drought",
                              <<"SEVERE DROUGHT", reading.soil_moisture_m3m3,
                                reading.soil_water_tension_kpa>>)
     ELSE IF reading.air_temperature_c < t.frost_emergency.air_temperature_max
       THEN makeCriticalAlert(sourceNode, "frost_emergency",
                              <<"FROST EMERGENCY", reading.air_temperature_c>>)
     ELSE IF /\ reading.tvoc_ugm3 > t.chemical_hazard.tvoc_min
             /\ reading.soil_ph < t.chemical_hazard.soil_ph_max
       THEN makeCriticalAlert(sourceNode, "chemical_hazard",
                              <<"CHEMICAL HAZARD", reading.tvoc_ugm3, reading.soil_ph>>)
     ELSE Null

Abs(x) == IF x < 0 THEN 0 - x ELSE x

\* Haversine distance in millimetres for two points on one meridian
\* (lng1 = lng2, as for every node of the model): there dLng = 0,
\* a = sin^2(dLat/2), c = |dLat| in radians, and R * c is
\* 6371000 * pi / 180 = 111195 m per degree, 111.195 mm per micro-degree.
haversineDistance(lat1, lng1, lat2, lng2) ==
  (Abs(lat2 - lat1) * 111195) \div 1000

findNodesInRadius(sourceNode, allNodes, radiusMeters) ==
  LET InRadius(n) ==
        /\ n.node_id # sourceNode.node_id
        /\ haversineDistance(sourceNode.latitude, sourceNode.longitude,
                             n.latitude, n.longitude) <= radiusMeters * 1000
  IN SelectSeq(allNodes, InRadius)

\* The fallback scan that lets a later node at the same distance take over
RECURSIVE closestScanLastOnTies(_, _, _, _, _)
closestScanLastOnTies(sourceNode, allNodes, i, closestNode, closestDist) ==
  IF i > Len(allNodes) THEN closestNode
  ELSE LET n == allNodes[i]
           dist == haversineDistance(sourceNode.latitude, sourceNode.longitude,
                                     n.latitude, n.longitude)
       IN IF n.node_id = sourceNode.node_id
            THEN closestScanLastOnTies(sourceNode, allNodes, i + 1, closestNode,
                                       closestDist)
          ELSE IF /\ dist <= FALLBACK_RADIUS_METERS * 1000
                  /\ (closestDist = -1 \/ dist <= closestDist)
            THEN closestScanLastOnTies(sourceNode, allNodes, i + 1, n, dist)
          ELSE closestScanLastOnTies(sourceNode, allNodes, i + 1, closestNode,
                                     closestDist)

\* The scan of the fallback loop from position i on; closestDist = -1 stands
\* for Infinity (no candidate yet).
RECURSIVE closestScan(_, _, _, _, _)
closestScan(sourceNode, allNodes, i, closestNode, closestDist) ==
  IF i > Len(allNodes) THEN closestNode
  ELSE LET n == allNodes[i]
           dist == haversineDistance(sourceNode.latitude, sourceNode.longitude,
                                     n.latitude, n.longitude)
       IN IF n.node_id = sourceNode.node_id
            THEN closestScan(sourceNode, allNodes, i + 1, closestNode, closestDist)
          ELSE IF /\ dist <= FALLBACK_RADIUS_METERS * 1000
                  /\ (closestDist = -1 \/ dist < closestDist)
            THEN closestScan(sourceNode, allNodes, i + 1, n, dist)
          ELSE closestScan(sourceNode, allNodes, i + 1, closestNode, closestDist)

\* Discovery that never widens the search
findNodesWithFallbackPrimaryOnly(sourceNode, allNodes) ==
  findNodesInRadius(sourceNode, allNodes, ALERT_RADIUS_METERS)

findNodesWithFallback(sourceNode, allNodes) ==
  LET primary == findNodesInRadius(sourceNode, allNodes, ALERT_RADIUS_METERS)
  IN IF Len(primary) > 0 THEN primary
     ELSE LET closestNode == closestScan(sourceNode, allNodes, 1, Null, -1)
          IN IF closestNode # Null THEN <<closestNode>> ELSE <<>>

\* clusterMap: a Map keeps its keys in insertion order; it is a list of
\* <<user_id, node ids>> entries.
RECURSIVE groupByCluster(_, _, _, _)
groupByCluster(criticalAlert, nodesInRadius, i, clusterMap) ==
  IF i > Len(nodesInRadius) THEN clusterMap
  ELSE LET node == nodesInRadius[i]
           at == {k \in 1..Len(clusterMap) : clusterMap[k][1] = node.user_id}
       IN IF node.user_id = criticalAlert.sourceClusterId
            THEN groupByCluster(criticalAlert, nodesInRadius, i + 1, clusterMap)
          ELSE IF at = {}
            THEN groupByCluster(criticalAlert, nodesInRadius, i + 1,
                                Append(clusterMap, <<node.user_id, <<node.node_id>>>>))
          ELSE LET k == CHOOSE x \in at : TRUE
               IN groupByCluster(criticalAlert, nodesInRadius, i + 1,
                    [clusterMap EXCEPT ![k] =
                       <<node.user_id, Append(clusterMap[k][2], node.node_id)>>])

\* One alert per affected node instead of one per cluster
deduplicateClusterAlertsPerNode(criticalAlert, nodesInRadius) ==
  LET External(n) == n.user_id # criticalAlert.sourceClusterId
      ext == SelectSeq(nodesInRadius, External)
  IN [k \in 1..Len(ext) |->
        [id |-> <<"inter", criticalAlert.sourceNodeId, ext[k].user_id,
                  criticalAlert.type>>,
         sourceNodeId |-> criticalAlert.sourceNodeId,
         sourceClusterId |-> criticalAlert.sourceClusterId,
         targetClusterId |-> ext[k].user_id,
         affectedNodeIds |-> <<ext[k].node_id>>,
         infectedCount |-> 1,
         type |-> criticalAlert.type,
         message |-> criticalAlert.message]]

deduplicateClusterAlerts(criticalAlert, nodesInRadius) ==
  LET clusterMap == groupByCluster(criticalAlert, nodesInRadius, 1, <<>>)
  IN [k \in 1..Len(clusterMap) |->
        [id |-> <<"inter", criticalAlert.sourceNodeId, clusterMap[k][1],
                  criticalAlert.type>>,
         sourceNodeId |-> criticalAlert.sourceNodeId,
         sourceClusterId |-> criticalAlert.sourceClusterId,
         targetClusterId |-> clusterMap[k][1],
         affectedNodeIds |-> clusterMap[k][2],
         infectedCount |-> Len(clusterMap[k][2]),
         type |-> criticalAlert.type,
         message |-> criticalAlert.message]]

-----------------------------------------------------------------------------
(* app/dashboard/page.tsx: the clients, the alerts table and Supabase       *)
(* Realtime.  A client step is a React state change together with the       *)
(* effect it re-runs; a store request is executed at some later moment, in  *)
(* any order with the other requests in flight; realtime events reach each  *)
(* subscribed client in commit order.                                       *)

Clients == {"A", "B"}

\* The client whose user opens the page and operates the test trigger
\* panel.  The other client has its page open already and only watches: its
\* own effect runs find no row of its own in the table.
Senders == {"A"}

NoTrigger == "null"

DashTriggerTypes == {"pest_outbreak"}

\* The nodes table read by fetchNodes
DashNodeTable ==
  <<[node_id |-> "a1", latitude |-> 0, longitude |-> 0, user_id |-> "A"],
    [node_id |-> "b1", latitude |-> 1, longitude |-> 0, user_id |-> "B"],
    [node_id |-> "c1", latitude |-> 2, longitude |-> 0, user_id |-> "C"]>>

\* The alerts table when the clients open the page: a third tenant's
\* critical alert is active
InitialRows ==
  <<[id |-> <<"row", 1>>, node_id |-> "c1", source_cluster_id |-> "C",
     type |-> "pest_outbreak", message |-> "stored", is_critical |-> TRUE,
     is_active |-> TRUE]>>

ownNodes(c) == SelectSeq(nodeTable, LAMBDA n : n.user_id = c)

otherNodes(c) == SelectSeq(nodeTable, LAMBDA n : n.user_id # c)

allNodes(c) == ownNodes(c) \o otherNodes(c)

\* Readings generateTimeBasedReading can return: a warm midday one, and a
\* midnight one of a node whose noise term puts the air temperature below 1
BaseReadings ==
  {[air_temperature_c |-> 25, relative_humidity_pct |-> 55,
    soil_moisture_m3m3 |-> 30, soil_water_tension_kpa |-> 30,
    tvoc_ugm3 |-> 40, soil_ph |-> 65],
   [air_temperature_c |-> 0, relative_humidity_pct |-> 85,
    soil_moisture_m3m3 |-> 30, soil_water_tension_kpa |-> 30,
    tvoc_ugm3 |-> 40, soil_ph |-> 65]}

getTestOverrideReading(type, baseReading) ==
  CASE type = "pest_outbreak" ->
         [baseReading EXCEPT !.air_temperature_c = 42,
                             !.relative_humidity_pct = 92]
    [] type = "severe_drought" ->
         [baseReading EXCEPT !.soil_moisture_m3m3 = 5,
                             !.soil_water_tension_kpa = 75]
    [] type = "frost_emergency" ->
         [baseReading EXCEPT !.air_temperature_c = -2]
    [] type = "chemical_hazard" ->
         [baseReading EXCEPT !.tvoc_ugm3 = 500, !.soil_ph = 42]

\* ownNodes.find(n => n.node_id === testTargetNodeId) || ownNodes[0]
testNode(c, cl) ==
  LET own == ownNodes(c)
      hit == SelectSeq(own, LAMBDA n : n.node_id = cl.testTargetNodeId)
  IN IF Len(hit) > 0 THEN hit[1] ELSE own[1]

InitialClient ==
  [mounted |-> FALSE, testTriggerType |-> NoTrigger, testTargetNodeId |-> "null",
   criticalAlerts |-> <<>>, interClusterAlerts |-> <<>>]

DashIdle ==
  /\ rows = <<>>
  /\ requests = {}
  /\ responses = {}
  /\ queue = [c \in Clients |-> <<>>]
  /\ client = [c \in Clients |-> InitialClient]
  /\ budget = MaxRuns
  /\ step = NoCall

\* The handle of a new request: the first one no request or response in
\* flight carries (it only tells apart requests that are otherwise equal)
FreeHandle(taken) == CHOOSE n \in 1..(Cardinality(taken) + 1) : n \notin taken

Handles == {r.n : r \in requests \cup responses}

\* The local part and the external part of an alert list of client c
LocalAlerts(list, c) == SelectSeq(list, LAMBDA a : a.sourceClusterId = c)

ExternalAlerts(list, c) == SelectSeq(list, LAMBDA a : a.sourceClusterId # c)

\* --- the test trigger effect (page.tsx 210-269) ---------------------------
\* Its result: the client's new alert lists and the request it issues.

ClearBranch(c, cl) ==
  [client |-> [cl EXCEPT
                 !.criticalAlerts = ExternalAlerts(cl.criticalAlerts, c),
                 !.interClusterAlerts = ExternalAlerts(cl.interClusterAlerts, c)],
   request |-> [kind |-> "deactivate_active", by |-> c, source |-> c,
                n |-> FreeHandle(Handles)]]

\* The trigger branch that adds the new alert to the list as it is
TriggerBranchAppending(c, cl, baseReading) ==
  LET reading == getTestOverrideReading(cl.testTriggerType, baseReading)
      critical == evaluateCriticalAlert(reading, testNode(c, cl))
  IN IF critical # Null
       THEN [client |-> [cl EXCEPT
                           !.criticalAlerts = Append(cl.criticalAlerts, critical)],
             request |-> [kind |-> "deactivate_all", by |-> c,
                          source |-> critical.sourceClusterId,
                          critical |-> critical, n |-> FreeHandle(Handles)]]
       ELSE [client |-> cl, request |-> Null]

TriggerBranch(c, cl, baseReading) ==
  LET reading == getTestOverrideReading(cl.testTriggerType, baseReading)
      critical == evaluateCriticalAlert(reading, testNode(c, cl))
  IN IF critical # Null
       THEN [client |-> [cl EXCEPT
                           !.criticalAlerts =
                              Append(ExternalAlerts(cl.criticalAlerts, c), critical)],
             request |-> [kind |-> "deactivate_all", by |-> c,
                          source |-> critical.sourceClusterId,
                          critical |-> critical, n |-> FreeHandle(Handles)]]
       ELSE [client |-> cl, request |-> Null]

\* The possible outcomes of running the effect in client state cl
TriggerEffects(c, cl) ==
  IF cl.testTriggerType = NoTrigger
    THEN {ClearBranch(c, cl)}
    ELSE {TriggerBranch(c, cl, baseReading) : baseReading \in BaseReadings}

\* A client step: the state becomes cl and the test trigger effect re-runs
StateChange(c, cl, kind) ==
  \E e \in TriggerEffects(c, cl) :
    /\ client' = [client EXCEPT ![c] = e.client]
    /\ requests' = requests \cup ({e.request} \ {Null})
    /\ step' = [op |-> kind, client |-> c]
    /\ UNCHANGED <<rows, responses, queue>>

\* --- the store -----------------------------------------------------------

\* The UPDATE ... SET is_active = false of a request, row by row
Deactivated(req) ==
  [k \in 1..Len(rows) |->
     IF /\ rows[k].source_cluster_id = req.source
        /\ rows[k].is_critical
        /\ (req.kind = "deactivate_active" => rows[k].is_active)
       THEN [rows[k] EXCEPT !.is_active = FALSE]
       ELSE rows[k]]

\* The rows a request's filter matches
Matched(req) ==
  {k \in 1..Len(rows) :
     /\ rows[k].source_cluster_id = req.source
     /\ rows[k].is_critical
     /\ (req.kind = "deactivate_active" => rows[k].is_active)}

\* One UPDATE event per matched row, in row order
RECURSIVE UpdateEvents(_, _, _)
UpdateEvents(newRows, matched, k) ==
  IF k > Len(newRows) THEN <<>>
  ELSE (IF k \in matched
          THEN <<[event |-> "UPDATE", new |-> newRows[k]]>> ELSE <<>>)
       \o UpdateEvents(newRows, matched, k + 1)

\* Realtime broadcasts the events to every client with a joined channel
Broadcast(events) ==
  [c \in Clients |-> IF client[c].mounted THEN queue[c] \o events ELSE queue[c]]

\* --- client steps -----------------------------------------------------------

\* The page has loaded user and nodes: the test trigger effect runs (no
\* trigger is set, so it clears) and the subscription effect fetches the
\* existing alerts and joins the realtime channel.
Mount(c) ==
  /\ ~client[c].mounted
  /\ LET e == ClearBranch(c, [client[c] EXCEPT !.mounted = TRUE])
     IN /\ client' = [client EXCEPT ![c] = e.client]
        /\ requests' = requests \cup
             {e.request,
              [kind |-> "select", by |-> c, source |-> c,
               n |-> FreeHandle(Handles \cup {e.request.n})]}
  /\ step' = [op |-> "mount", client |-> c]
  /\ UNCHANGED <<rows, responses, queue, budget>>

handleTestTrigger(c, type) ==
  /\ client[c].mounted
  /\ client[c].testTriggerType # type
  /\ budget > 0
  /\ StateChange(c, [client[c] EXCEPT !.testTriggerType = type], "handleTestTrigger")
  /\ budget' = budget - 1

handleClearTestTrigger(c) ==
  /\ client[c].mounted
  /\ client[c].testTriggerType # NoTrigger
  /\ budget > 0
  /\ StateChange(c, [client[c] EXCEPT !.testTriggerType = NoTrigger],
                 "handleClearTestTrigger")
  /\ budget' = budget - 1

handleTestNodeChange(c, nodeId) ==
  /\ client[c].mounted
  /\ client[c].testTargetNodeId # nodeId
  /\ budget > 0
  /\ StateChange(c, [client[c] EXCEPT !.testTargetNodeId = nodeId],
                 "handleTestNodeChange")
  /\ budget' = budget - 1

\* The simulation timer advanced simMinutes
Tick(c) ==
  /\ client[c].mounted
  /\ budget > 0
  /\ StateChange(c, client[c], "tick")
  /\ budget' = budget - 1

\* The .then of the 'deactivate existing' update: insert the new alert
ThenInsert(resp) ==
  /\ resp.kind = "updated"
  /\ responses' = responses \ {resp}
  /\ requests' = requests \cup
       {[kind |-> "insert", by |-> resp.to, source |-> resp.critical.sourceClusterId,
         row |-> [node_id |-> resp.critical.sourceNodeId,
                  source_cluster_id |-> resp.critical.sourceClusterId,
                  type |-> resp.critical.type,
                  message |-> resp.critical.message,
                  is_critical |-> TRUE,
                  is_active |-> TRUE],
         n |-> resp.n]}
  /\ step' = [op |-> "thenInsert", client |-> resp.to]
  /\ UNCHANGED <<rows, queue, client, budget>>

\* The receiver's view of a row: its CriticalAlert and the derived
\* InterClusterAlerts (empty when the row's node is unknown to the client)
RemoteCritical(c, row) ==
  LET hit == SelectSeq(allNodes(c), LAMBDA n : n.node_id = row.node_id)
  IN IF Len(hit) = 0 THEN Null
     ELSE [id |-> row.id,
           sourceNodeId |-> row.node_id,
           sourceClusterId |-> row.source_cluster_id,
           type |-> row.type,
           message |-> row.message,
           lat |-> hit[1].latitude,
           lng |-> hit[1].longitude]

RemoteInterCluster(c, row) ==
  LET hit == SelectSeq(allNodes(c), LAMBDA n : n.node_id = row.node_id)
  IN IF Len(hit) = 0 THEN <<>>
     ELSE deduplicateClusterAlerts(RemoteCritical(c, row),
                                   findNodesWithFallback(hit[1], allNodes(c)))

RECURSIVE remoteCriticals(_, _, _)
remoteCriticals(c, data, k) ==
  IF k > Len(data) THEN <<>>
  ELSE (IF RemoteCritical(c, data[k]) = Null THEN <<>>
        ELSE <<RemoteCritical(c, data[k])>>) \o remoteCriticals(c, data, k + 1)

RECURSIVE remoteInterCluster(_, _, _)
remoteInterCluster(c, data, k) ==
  IF k > Len(data) THEN <<>>
  ELSE RemoteInterCluster(c, data[k]) \o remoteInterCluster(c, data, k + 1)

\* The continuation of fetchExisting once the query has answered
fetchExisting(c, cl, data) ==
  IF Len(data) > 0
    THEN [cl EXCEPT
            !.criticalAlerts =
               LocalAlerts(cl.criticalAlerts, c) \o remoteCriticals(c, data, 1),
            !.interClusterAlerts =
               LocalAlerts(cl.interClusterAlerts, c) \o remoteInterCluster(c, data, 1)]
    ELSE cl

FetchResult(resp) ==
  /\ resp.kind = "data"
  /\ responses' = responses \ {resp}
  /\ client' = [client EXCEPT ![resp.to] = fetchExisting(resp.to, @, resp.data)]
  /\ step' = [op |-> "fetchExisting", client |-> resp.to]
  /\ UNCHANGED <<rows, requests, queue, budget>>

\* The realtime INSERT handler, without its check for the client's own rows
onInsertOwnRowsToo(c, cl, row) ==
  IF RemoteCritical(c, row) = Null THEN cl
  ELSE LET ca == RemoteCritical(c, row)
       IN [cl EXCEPT
             !.criticalAlerts =
                Append(SelectSeq(cl.criticalAlerts, LAMBDA a : a.id # ca.id), ca),
             !.interClusterAlerts =
                SelectSeq(cl.interClusterAlerts,
                          LAMBDA a : a.sourceClusterId # ca.sourceClusterId)
                \o RemoteInterCluster(c, row)]

\* The realtime INSERT handler
onInsert(c, cl, row) ==
  IF row.source_cluster_id = c THEN cl
  ELSE IF RemoteCritical(c, row) = Null THEN cl
  ELSE LET ca == RemoteCritical(c, row)
       IN [cl EXCEPT
             !.criticalAlerts =
                Append(SelectSeq(cl.criticalAlerts, LAMBDA a : a.id # ca.id), ca),
             !.interClusterAlerts =
                SelectSeq(cl.interClusterAlerts,
                          LAMBDA a : a.sourceClusterId # ca.sourceClusterId)
                \o RemoteInterCluster(c, row)]

\* The realtime UPDATE handler, retracting the critical alerts only
onUpdateCriticalOnly(c, cl, row) ==
  IF row.source_cluster_id = c THEN cl
  ELSE IF row.is_active = FALSE
    THEN [cl EXCEPT
            !.criticalAlerts =
               SelectSeq(cl.criticalAlerts,
                         LAMBDA a : a.sourceClusterId # row.source_cluster_id)]
    ELSE cl

\* The realtime UPDATE handler
onUpdate(c, cl, row) ==
  IF row.source_cluster_id = c THEN cl
  ELSE IF row.is_active = FALSE
    THEN [cl EXCEPT
            !.criticalAlerts =
               SelectSeq(cl.criticalAlerts,
                         LAMBDA a : a.sourceClusterId # row.source_cluster_id),
            !.interClusterAlerts =
               SelectSeq(cl.interClusterAlerts,
                         LAMBDA a : a.sourceClusterId # row.source_cluster_id)]
    ELSE cl

\* Whether a client state holds an alert sourced from tenant s
HoldsAlertOf(cl, s) ==
  \/ \E k \in 1..Len(cl.criticalAlerts) : cl.criticalAlerts[k].sourceClusterId = s
  \/ \E k \in 1..Len(cl.interClusterAlerts) :
        cl.interClusterAlerts[k].sourceClusterId = s

\* The next realtime event reaches client c
Deliver(c) ==
  /\ queue[c] # <<>>
  /\ LET ev == Head(queue[c])
     IN /\ client' = [client EXCEPT ![c] =
                        IF ev.event = "INSERT" THEN onInsert(c, @, ev.new)
                        ELSE onUpdate(c, @, ev.new)]
        /\ step' = [op |-> "deliver", client |-> c, event |-> ev,
                    held |-> HoldsAlertOf(client[c], ev.new.source_cluster_id)]
  /\ queue' = [queue EXCEPT ![c] = Tail(@)]
  /\ UNCHANGED <<rows, requests, responses, budget>>

\* --- store steps ------------------------------------------------------------

ExecuteUpdate(req) ==
  /\ req.kind \in {"deactivate_all", "deactivate_active"}
  /\ requests' = requests \ {req}
  /\ rows' = Deactivated(req)
  /\ queue' = Broadcast(UpdateEvents(Deactivated(req), Matched(req), 1))
  /\ responses' = IF req.kind = "deactivate_all"
                    THEN responses \cup {[kind |-> "updated", to |-> req.by,
                                          critical |-> req.critical, n |-> req.n]}
                    ELSE responses
  /\ step' = [op |-> "executeUpdate", client |-> req.by]
  /\ UNCHANGED <<client, budget>>

ExecuteInsert(req) ==
  /\ req.kind = "insert"
  /\ requests' = requests \ {req}
  /\ LET row == [id |-> <<"row", Len(rows) + 1>>,
                 node_id |-> req.row.node_id,
                 source_cluster_id |-> req.row.source_cluster_id,
                 type |-> req.row.type,
                 message |-> req.row.message,
                 is_critical |-> req.row.is_critical,
                 is_active |-> req.row.is_active]
     IN /\ rows' = Append(rows, row)
        /\ queue' = Broadcast(<<[event |-> "INSERT", new |-> row]>>)
  /\ step' = [op |-> "executeInsert", client |-> req.by]
  /\ UNCHANGED <<responses, client, budget>>

ExecuteSelect(req) ==
  /\ req.kind = "select"
  /\ requests' = requests \ {req}
  /\ responses' = responses \cup
       {[kind |-> "data", to |-> req.by, n |-> req.n,
         data |-> SelectSeq(rows, LAMBDA r : /\ r.is_critical
                                             /\ r.is_active
                                             /\ r.source_cluster_id # req.by)]}
  /\ step' = [op |-> "executeSelect", client |-> req.by]
  /\ UNCHANGED <<rows, queue, client, budget>>

\* A third tenant's critical alert is active in the table; the watching
\* client has mounted and fetched it; the sender has not opened the page yet.
DashInit ==
  /\ states = <<>>
  /\ last = NoCall
  /\ nodeTable = DashNodeTable
  /\ call = NoCall
  /\ rows = InitialRows
  /\ requests = {}
  /\ responses = {}
  /\ queue = [c \in Clients |-> <<>>]
  /\ client = [c \in Clients |->
                 IF c \in Senders THEN InitialClient
                 ELSE fetchExisting(c, [InitialClient EXCEPT !.mounted = TRUE],
                                    InitialRows)]
  /\ budget = MaxRuns
  /\ step = NoCall

DashNext ==
  \/ \E c \in Clients : Mount(c) /\ UNCHANGED <<healthVars, engineVars>>
  \/ \E c \in Senders, type \in DashTriggerTypes :
        handleTestTrigger(c, type) /\ UNCHANGED <<healthVars, engineVars>>
  \/ \E c \in Senders : handleClearTestTrigger(c) /\ UNCHANGED <<healthVars, engineVars>>
  \/ \E c \in Senders, k \in 1..Len(nodeTable) :
        /\ nodeTable[k].user_id = c
        /\ handleTestNodeChange(c, nodeTable[k].node_id)
        /\ UNCHANGED <<healthVars, engineVars>>
  \/ \E c \in Senders : Tick(c) /\ UNCHANGED <<healthVars, engineVars>>
  \/ \E resp \in responses : ThenInsert(resp) /\ UNCHANGED <<healthVars, engineVars>>
  \/ \E resp \in responses : FetchResult(resp) /\ UNCHANGED <<healthVars, engineVars>>
  \/ \E c \in Clients : Deliver(c) /\ UNCHANGED <<healthVars, engineVars>>
  \/ \E req \in requests : ExecuteUpdate(req) /\ UNCHANGED <<healthVars, engineVars>>
  \/ \E req \in requests : ExecuteInsert(req) /\ UNCHANGED <<healthVars, engineVars>>
  \/ \E req \in requests : ExecuteSelect(req) /\ UNCHANGED <<healthVars, engineVars>>

SpecDash == DashInit /\ [][DashNext]_vars

-----------------------------------------------------------------------------
(* The infection monitor as a state machine *)

\* Lists of distinct node ids
NodeLists ==
  {<<>>} \cup {<<n>> : n \in NodeIds}
         \cup {<<p[1], p[2]>> : p \in {q \in NodeIds \X NodeIds : q[1] # q[2]}}

MonitorNode(n, r, t, cfg) ==
  LET res == monitorNodeInfection(states, n, r, t, cfg)
  IN /\ states' = res.states
     /\ last' = [op |-> "monitorNodeInfection", node |-> n, reading |-> r,
                 time |-> t, config |-> cfg, pre |-> states, ret |-> res.ret]
     /\ UNCHANGED <<engineVars, dashVars>>

MonitorAll(nodes, rd, t) ==
  LET res == monitorAllNodes(states, nodes, rd, t, DEFAULT_INFECTION_CONFIG)
  IN /\ states' = res.states
     /\ last' = [op |-> "monitorAllNodes", nodes |-> nodes, readings |-> rd,
                 time |-> t, config |-> DEFAULT_INFECTION_CONFIG, pre |-> states,
                 statuses |-> res.statuses, threw |-> res.threw,
                 evaluated |-> res.evaluated]
     /\ UNCHANGED <<engineVars, dashVars>>

SetAtRisk(n) ==
  /\ states' = setAtRisk(states, n)
  /\ last' = [op |-> "setAtRisk", node |-> n, pre |-> states]
  /\ UNCHANGED <<engineVars, dashVars>>

SetOffline(n) ==
  /\ states' = setOffline(states, n)
  /\ last' = [op |-> "setOffline", node |-> n, pre |-> states]
  /\ UNCHANGED <<engineVars, dashVars>>

HealthInit ==
  /\ states = <<>>
  /\ last = NoCall
  /\ nodeTable = <<>>
  /\ call = NoCall
  /\ DashIdle

\* One node, every reading and configuration
NodeNext ==
  \/ \E r \in Readings \cup {NoReading}, t \in TimeInputs, cfg \in Configs :
        MonitorNode("n1", r, t, cfg)
  \/ SetAtRisk("n1")
  \/ SetOffline("n1")

SpecNode == HealthInit /\ [][NodeNext]_vars

\* The fleet, ticked as a whole
FleetNext ==
  \/ \E nodes \in NodeLists, rd \in [NodeIds -> FleetReadings \cup {NoReading}],
        t \in SimTimes : MonitorAll(nodes, rd, t)
  \/ \E n \in NodeIds, r \in FleetReadings, t \in SimTimes :
        MonitorNode(n, r, t, DEFAULT_INFECTION_CONFIG)
  \/ \E n \in NodeIds : SetAtRisk(n)
  \/ \E n \in NodeIds : SetOffline(n)

SpecFleet == HealthInit /\ [][FleetNext]_vars

-----------------------------------------------------------------------------
(* The alert engine's pure functions, applied to bounded inputs *)

Tenants == {"A", "B", "C"}

\* Latitudes in micro-degrees: 899 micro-degrees are 99.96 m and 900 are
\* 100.08 m; 2697 are 299.89 m and 2698 are 300.004 m.
Latitudes == {0, 1, 900, 1800, 2698}

NodeName(i) == <<"node", i>>

NodeTables ==
  {[i \in 1..MaxNodes |->
      [node_id |-> NodeName(i), latitude |-> f[i][1], longitude |-> 0,
       user_id |-> f[i][2]]] : f \in [1..MaxNodes -> Latitudes \X Tenants]}

AirTemperatureValues == {-2, 1, 25, 40, 42}
RuleHumidityValues == {55, 85, 92}
RuleMoistureValues == {5, 8, 30}
TensionValues == {30, 60, 75}
RuleTvocValues == {40, 450, 500}
PhValues == {42, 48, 65}

RuleReadings ==
  [air_temperature_c : AirTemperatureValues,
   relative_humidity_pct : RuleHumidityValues,
   soil_moisture_m3m3 : RuleMoistureValues,
   soil_water_tension_kpa : TensionValues,
   tvoc_ugm3 : RuleTvocValues,
   soil_ph : PhValues]

DefaultNodeTable ==
  <<[node_id |-> NodeName(1), latitude |-> 0, longitude |-> 0, user_id |-> "A"],
    [node_id |-> NodeName(2), latitude |-> 900, longitude |-> 0, user_id |-> "B"]>>

Evaluate(reading, i) ==
  /\ call' = [op |-> "evaluateCriticalAlert", reading |-> reading,
              sourceNode |-> nodeTable[i],
              result |-> evaluateCriticalAlert(reading, nodeTable[i])]
  /\ UNCHANGED <<nodeTable, healthVars, dashVars>>

RulesNext == \E r \in RuleReadings, i \in 1..Len(nodeTable) : Evaluate(r, i)

RulesInit ==
  /\ states = <<>>
  /\ last = NoCall
  /\ nodeTable = DefaultNodeTable
  /\ call = NoCall
  /\ DashIdle

SpecRules == RulesInit /\ [][RulesNext]_vars

\* findNodesWithFallback on the node table
Discover(i) ==
  /\ call' = [op |-> "findNodesWithFallback", sourceNode |-> nodeTable[i],
              result |-> findNodesWithFallback(nodeTable[i], nodeTable)]
  /\ UNCHANGED <<nodeTable, healthVars, dashVars>>

\* deduplicateClusterAlerts on a given list of nodes
Deduplicate(i, type, given) ==
  LET ca == makeCriticalAlert(nodeTable[i], type, <<type>>)
  IN /\ call' = [op |-> "deduplicateClusterAlerts", criticalAlert |-> ca,
                 nodesInRadius |-> given,
                 result |-> deduplicateClusterAlerts(ca, given)]
     /\ UNCHANGED <<nodeTable, healthVars, dashVars>>

\* The composition used by the receivers: discovery, then deduplication
Route(i, type) ==
  LET ca == makeCriticalAlert(nodeTable[i], type, <<type>>)
      nearby == findNodesWithFallback(nodeTable[i], nodeTable)
  IN /\ call' = [op |-> "route", sourceNode |-> nodeTable[i], criticalAlert |-> ca,
                 nodesInRadius |-> nearby,
                 result |-> deduplicateClusterAlerts(ca, nearby)]
     /\ UNCHANGED <<nodeTable, healthVars, dashVars>>

RoutedTypes == {"pest_outbreak"}

RoutingNext ==
  \/ \E i \in 1..Len(nodeTable) : Discover(i)
  \/ \E i \in 1..Len(nodeTable), type \in RoutedTypes :
        Deduplicate(i, type, nodeTable)
  \/ \E i \in 1..Len(nodeTable), type \in RoutedTypes : Route(i, type)

RoutingInit ==
  /\ states = <<>>
  /\ last = NoCall
  /\ nodeTable \in NodeTables
  /\ call = NoCall
  /\ DashIdle

SpecRouting == RoutingInit /\ [][RoutingNext]_vars

-----------------------------------------------------------------------------
(* Properties of the infection monitor *)

\* Status of a node in the store before the last call (a node not yet in
\* the map is created online by getState)
PreState(n) == IF n \in DOMAIN last.pre THEN last.pre[n] ELSE OnlineState

\* Stored state of a node now
StoredState(n) == IF n \in DOMAIN states THEN states[n] ELSE OnlineState

IsMonitorCall == last.op = "monitorNodeInfection" /\ last.reading # NoReading

\* C1: a call of monitorNodeInfection with tvoc_ugm3 above the critical
\* threshold leaves the node infected with a non-empty trigger list,
\* whatever its status was before (stated for the default configuration).
C1_TvocAboveThresholdInfects ==
  (/\ IsMonitorCall
   /\ last.config = DEFAULT_INFECTION_CONFIG
   /\ PreState(last.node).status \in {"online", "at_risk", "infected"}
   /\ last.reading.tvoc_ugm3 > last.config.tvocThreshold)
  => /\ states[last.node].status = "infected"
     /\ Len(states[last.node].triggers) > 0

\* At least one recovery condition fails for reading r under configuration c
SomeRecoveryConditionFails(r, c) ==
  \/ r.tvoc_ugm3 >= c.tvocRecoveryThreshold
  \/ r.relative_humidity_pct <= c.humidityRecoveryThreshold
  \/ r.soil_moisture_m3m3 <= c.soilMoistureRecoveryThreshold

C10_MissingReadingSkipped ==
  last.op = "monitorAllNodes" =>
    /\ ~last.threw
    /\ \A k \in 1..Len(last.nodes) :
         IF last.readings[last.nodes[k]] = NoReading
           THEN StoredState(last.nodes[k]) = PreState(last.nodes[k])
           ELSE last.nodes[k] \in DOMAIN last.statuses

-----------------------------------------------------------------------------
(* Properties of the alert engine *)

RuleOrder ==
  <<"pest_outbreak", "severe_drought", "frost_emergency", "chemical_hazard">>

\* All threshold comparisons of a rule hold for reading r
RuleHolds(type, r) ==
  CASE type = "pest_outbreak" ->
         r.air_temperature_c > 40 /\ r.relative_humidity_pct > 85
    [] type = "severe_drought" ->
         r.soil_moisture_m3m3 < 8 /\ r.soil_water_tension_kpa > 60
    [] type = "frost_emergency" -> r.air_temperature_c < 1
    [] type = "chemical_hazard" -> r.tvoc_ugm3 > 450 /\ r.soil_ph < 48

MatchingRules(r) == {k \in 1..Len(RuleOrder) : RuleHolds(RuleOrder[k], r)}

\* C6: evaluateCriticalAlert returns the alert of the first rule, in the
\* fixed order, that holds for the reading, and null exactly when none holds.
C6_FirstMatchingRule ==
  call.op = "evaluateCriticalAlert" =>
    LET m == MatchingRules(call.reading)
    IN IF m = {} THEN call.result = Null
       ELSE /\ call.result # Null
            /\ \E k \in m : /\ \A j \in m : k <= j
                            /\ call.result.type = RuleOrder[k]
                            /\ call.result.sourceNodeId = call.sourceNode.node_id

\* A reading satisfying both the drought and the frost rule produced the
\* drought alert.
C6_Witness ==
  /\ call.op = "evaluateCriticalAlert"
  /\ Cardinality(MatchingRules(call.reading)) >= 2
  /\ RuleHolds("severe_drought", call.reading)
  /\ RuleHolds("frost_emergency", call.reading)
  /\ call.result # Null
  /\ call.result.type = "severe_drought"

SeqRange(seq) == {seq[k] : k \in 1..Len(seq)}

IsDedupCall == call.op \in {"deduplicateClusterAlerts", "route"}

\* C4: deduplicateClusterAlerts returns exactly one alert per tenant that
\* owns a given node and is not the source tenant; each carries exactly that
\* tenant's node ids, their count, and no node id occurs in two alerts.
C4_OneAlertPerTenant ==
  IsDedupCall =>
    LET src == call.criticalAlert.sourceClusterId
        given == SeqRange(call.nodesInRadius)
        res == call.result
    IN /\ {res[k].targetClusterId : k \in 1..Len(res)}
            = {n.user_id : n \in given} \ {src}
       /\ \A j, k \in 1..Len(res) :
            j # k => /\ res[j].targetClusterId # res[k].targetClusterId
                     /\ SeqRange(res[j].affectedNodeIds)
                          \cap SeqRange(res[k].affectedNodeIds) = {}
       /\ \A k \in 1..Len(res) :
            /\ res[k].targetClusterId # src
            /\ SeqRange(res[k].affectedNodeIds)
                 = {n.node_id : n \in {x \in given :
                                         x.user_id = res[k].targetClusterId}}
            /\ res[k].infectedCount = Len(res[k].affectedNodeIds)
            /\ Cardinality(SeqRange(res[k].affectedNodeIds))
                 = Len(res[k].affectedNodeIds)

\* Two given nodes of one external tenant ended in a single alert.
C4_Witness ==
  /\ call.op = "deduplicateClusterAlerts"
  /\ Len(call.result) = 1
  /\ call.result[1].infectedCount = 2
  /\ Len(call.nodesInRadius) = MaxNodes

\* The other nodes whose distance from the source is within radius (metres)
OthersWithin(src, table, radiusMeters) ==
  {n \in SeqRange(table) :
     /\ n.node_id # src.node_id
     /\ haversineDistance(src.latitude, src.longitude, n.latitude, n.longitude)
          <= radiusMeters * 1000}

\* C5 as claimed: with no node in the primary radius and exactly one in the
\* fallback radius, exactly one inter-cluster alert targets that node's
\* tenant; with none in either radius there is no alert.
C5_FallbackAlert ==
  call.op = "route" =>
    LET near == OthersWithin(call.sourceNode, nodeTable, ALERT_RADIUS_METERS)
        far == OthersWithin(call.sourceNode, nodeTable, FALLBACK_RADIUS_METERS)
    IN /\ (near = {} /\ Cardinality(far) = 1) =>
             /\ Len(call.result) = 1
             /\ \A n \in far : call.result[1].targetClusterId = n.user_id
       /\ far = {} => Len(call.result) = 0

\* C5 amended: the single fallback node's tenant gets exactly one alert when
\* it is not the source's own tenant, and nobody is alerted when it is.
C5_FallbackAlertExternal ==
  call.op = "route" =>
    LET near == OthersWithin(call.sourceNode, nodeTable, ALERT_RADIUS_METERS)
        far == OthersWithin(call.sourceNode, nodeTable, FALLBACK_RADIUS_METERS)
    IN /\ (near = {} /\ Cardinality(far) = 1) =>
             \A n \in far :
               IF n.user_id # call.sourceNode.user_id
                 THEN /\ Len(call.result) = 1
                      /\ call.result[1].targetClusterId = n.user_id
                      /\ call.result[1].affectedNodeIds = <<n.node_id>>
                 ELSE Len(call.result) = 0
       /\ far = {} => Len(call.result) = 0

\* A lone node between the two radii, owned by another tenant, was alerted.
C5_Witness ==
  /\ call.op = "route"
  /\ OthersWithin(call.sourceNode, nodeTable, ALERT_RADIUS_METERS) = {}
  /\ Cardinality(OthersWithin(call.sourceNode, nodeTable,
                              FALLBACK_RADIUS_METERS)) = 1
  /\ Len(call.result) = 1
  /\ call.result[1].targetClusterId # call.sourceNode.user_id

-----------------------------------------------------------------------------
(* Claims about the dashboard's critical alert exchange *)

ActiveCriticalRows(s) ==
  {k \in 1..Len(rows) : /\ rows[k].source_cluster_id = s
                        /\ rows[k].is_critical
                        /\ rows[k].is_active}

\* C3: the alerts table never holds two active critical rows for the same
\* source node and hazard type of a sending tenant
C3_OneActiveRowPerKey ==
  \A s \in Senders : \A i, j \in ActiveCriticalRows(s) :
     (rows[i].node_id = rows[j].node_id /\ rows[i].type = rows[j].type) => i = j

Quiescent ==
  /\ requests = {}
  /\ responses = {}
  /\ \A c \in Clients : queue[c] = <<>>

\* C7: once the sender's trigger is cleared and every store operation and
\* realtime event has completed, no active critical row of the sender is left
\* and no receiving client holds an alert sourced from the sender
C7_ClearRetractsEverywhere ==
  \A s \in Senders :
     (client[s].mounted /\ client[s].testTriggerType = NoTrigger /\ Quiescent)
       => /\ ActiveCriticalRows(s) = {}
          /\ \A c \in Clients \ {s} : ~HoldsAlertOf(client[c], s)

NoOrphans(cl) ==
  \A k \in 1..Len(cl.interClusterAlerts) :
     \E j \in 1..Len(cl.criticalAlerts) :
        cl.criticalAlerts[j].sourceClusterId = cl.interClusterAlerts[k].sourceClusterId

\* The last step was a client processing a deactivation event
IsDeactivationStep ==
  /\ step.op = "deliver"
  /\ step.event.event = "UPDATE"
  /\ step.event.new.is_active = FALSE

\* C8: every InterClusterAlert held has a CriticalAlert of the same source
\* held with it, and right after a client has processed a deactivation event
\* for source tenant S it holds no alert sourced from S
C8_DeactivationRetracts ==
  /\ \A c \in Clients : NoOrphans(client[c])
  /\ IsDeactivationStep =>
       ~HoldsAlertOf(client[step.client], step.event.new.source_cluster_id)

\* C8, for a source other than the client's own tenant: no orphaned derived
\* alerts, and right after a client has processed a deactivation event for a
\* source tenant S other than its own user id it holds no alert sourced from S
C8_ExternalDeactivationRetracts ==
  /\ \A c \in Clients : NoOrphans(client[c])
  /\ (IsDeactivationStep /\ step.event.new.source_cluster_id # step.client) =>
       ~HoldsAlertOf(client[step.client], step.event.new.source_cluster_id)

\* A receiver that held both lists' alerts of the sender has processed the
\* sender's deactivation and still holds the third tenant's alerts
C8_Witness ==
  /\ IsDeactivationStep
  /\ step.event.new.source_cluster_id # step.client
  /\ step.held
  /\ client[step.client].interClusterAlerts # <<>>
  /\ client[step.client].criticalAlerts # <<>>

HandlerOps == {"fetchExisting", "deliver"}

EffectOps ==
  {"mount", "handleTestTrigger", "handleClearTestTrigger", "handleTestNodeChange",
   "tick"}

\* The effect of a step on the two parts of its client's alert lists
KeepsLocal(c) ==
  /\ LocalAlerts(client'[c].criticalAlerts, c) = LocalAlerts(client[c].criticalAlerts, c)
  /\ LocalAlerts(client'[c].interClusterAlerts, c)
       = LocalAlerts(client[c].interClusterAlerts, c)

KeepsExternal(c) ==
  /\ ExternalAlerts(client'[c].criticalAlerts, c)
       = ExternalAlerts(client[c].criticalAlerts, c)
  /\ ExternalAlerts(client'[c].interClusterAlerts, c)
       = ExternalAlerts(client[c].interClusterAlerts, c)

\* C9: fetchExisting and the realtime handlers leave the alerts sourced from
\* the local user as they were, and the test trigger effect leaves the alerts
\* sourced from other tenants as they were
C9_PartitionBySource ==
  [][/\ step'.op \in HandlerOps => KeepsLocal(step'.client)
     /\ step'.op \in EffectOps => KeepsExternal(step'.client)]_vars

\* A client holding a local and an external alert has processed the realtime
\* event of its own insert
C9_Witness ==
  /\ step.op = "deliver"
  /\ step.event.event = "INSERT"
  /\ step.event.new.source_cluster_id = step.client
  /\ LocalAlerts(client[step.client].criticalAlerts, step.client) # <<>>
  /\ ExternalAlerts(client[step.client].criticalAlerts, step.client) # <<>>
  /\ ExternalAlerts(client[step.client].interClusterAlerts, step.client) # <<>>

-----------------------------------------------------------------------------
(* The number type of the analytics code: binary floating point, every       *)
(* operation rounded to nearest, ties to even.  A number is a reduced        *)
(* fraction <<n, d>> with d a power of two; <<0, 0>> is NaN.  The            *)
(* significand has SignificandBits bits (53 in the running program).         *)

SignificandBits == 4

RECURSIVE Pow2(_)
Pow2(k) == IF k = 0 THEN 1 ELSE 2 * Pow2(k - 1)

NaN == <<0, 0>>

Zero == <<0, 1>>

IsNaN(x) == x = NaN

RECURSIVE Reduce(_, _)
Reduce(n, d) ==
  IF d > 1 /\ n % 2 = 0 THEN Reduce(n \div 2, d \div 2) ELSE <<n, d>>

\* The nearest number to (num / den) * (b / a), for num, den > 0
RECURSIVE RoundScaled(_, _, _, _)
RoundScaled(num, den, a, b) ==
  IF num >= den * Pow2(SignificandBits)
    THEN RoundScaled(num, den * 2, a, b * 2)
  ELSE IF num < den * Pow2(SignificandBits - 1)
    THEN RoundScaled(num * 2, den, a * 2, b)
  ELSE LET q == num \div den
           r == num - q * den
           up == 2 * r > den \/ (2 * r = den /\ q % 2 = 1)
       IN Reduce((IF up THEN q + 1 ELSE q) * b, a)

FNeg(x) == IF IsNaN(x) THEN NaN ELSE <<0 - x[1], x[2]>>

\* The number nearest to the fraction n / d, d > 0
Round(n, d) ==
  IF n = 0 THEN Zero
  ELSE IF n < 0 THEN FNeg(RoundScaled(0 - n, d, 1, 1))
  ELSE RoundScaled(n, d, 1, 1)

FromInt(k) == Round(k, 1)

FAdd(x, y) ==
  IF IsNaN(x) \/ IsNaN(y) THEN NaN
  ELSE Round(x[1] * y[2] + y[1] * x[2], x[2] * y[2])

FSub(x, y) ==
  IF IsNaN(x) \/ IsNaN(y) THEN NaN
  ELSE Round(x[1] * y[2] - y[1] * x[2], x[2] * y[2])

FMul(x, y) ==
  IF IsNaN(x) \/ IsNaN(y) THEN NaN
  ELSE Round(x[1] * y[1], x[2] * y[2])

\* x / y; the callers divide by zero only as 0 / 0
FDiv(x, y) ==
  IF IsNaN(x) \/ IsNaN(y) \/ y[1] = 0 THEN NaN
  ELSE IF y[1] < 0 THEN Round(0 - x[1] * y[2], 0 - x[2] * y[1])
  ELSE Round(x[1] * y[2], x[2] * y[1])

RECURSIVE IntSqrt(_, _)
IntSqrt(v, r) == IF (r + 1) * (r + 1) <= v THEN IntSqrt(v, r + 1) ELSE r

RECURSIVE Log2(_)
Log2(d) == IF d <= 1 THEN 0 ELSE 1 + Log2(d \div 2)

\* n / d rewritten with a denominator that is a power of four and a
\* numerator of at least 2 * SignificandBits bits
RECURSIVE SqrtScaled(_, _)
SqrtScaled(num, den) ==
  IF Log2(den) % 2 = 1 THEN SqrtScaled(num * 2, den * 2)
  ELSE IF num < Pow2(2 * SignificandBits) THEN SqrtScaled(num * 4, den * 4)
  ELSE LET r == IntSqrt(num, 0)
           sd == Pow2(Log2(den) \div 2)
       IN IF r * r = num THEN Round(r, sd) ELSE Round(2 * r + 1, 2 * sd)

\* Math.sqrt
FSqrt(x) ==
  IF IsNaN(x) \/ x[1] < 0 THEN NaN
  ELSE IF x[1] = 0 THEN Zero
  ELSE SqrtScaled(x[1], x[2])

\* Math.abs
FAbs(x) == IF IsNaN(x) THEN NaN ELSE <<IF x[1] < 0 THEN 0 - x[1] ELSE x[1], x[2]>>

\* x < y and x > y; every comparison with NaN is false
FLess(x, y) == ~IsNaN(x) /\ ~IsNaN(y) /\ x[1] * y[2] < y[1] * x[2]

FGreater(x, y) == FLess(y, x)

\* values.reduce((sum, val) => sum + val, 0)
RECURSIVE FSum(_, _)
FSum(values, k) ==
  IF k = 0 THEN Zero ELSE FAdd(FSum(values, k - 1), values[k])

-----------------------------------------------------------------------------
(* lib/analytics/anomalyDetection.ts *)

fieldsToAnalyze ==
  <<"air_temperature_c", "soil_moisture_m3m3", "soil_temperature_c",
    "soil_ec_msm", "soil_ph", "soil_water_tension_kpa",
    "relative_humidity_pct", "dew_point_c", "ambient_co2_umolmol",
    "tvoc_ugm3", "solar_irradiance_wm2", "atmospheric_pressure_hpa",
    "rainfall_rate_mmh", "water_table_depth_m", "vpd_kpa">>

\* data.slice(start, index + 1), indices counted from 1
Slice(data, start, end) ==
  [k \in 1..(IF end >= start THEN end - start + 1 ELSE 0) |-> data[start + k - 1]]

\* sum of (val - mean)^2 over the window
RECURSIVE SumSquares(_, _, _)
SumSquares(window, mean, k) ==
  IF k = 0 THEN Zero
  ELSE FAdd(SumSquares(window, mean, k - 1),
            FMul(FSub(window[k], mean), FSub(window[k], mean)))

\* index counts from 1 here (the code's index + 1)
computeRollingStats(data, index, windowSize) ==
  LET start == IF index - windowSize + 1 > 1 THEN index - windowSize + 1 ELSE 1
      window == Slice(data, start, index)
      mean == FDiv(FSum(window, Len(window)), FromInt(Len(window)))
      variance == FDiv(SumSquares(window, mean, Len(window)), FromInt(Len(window)))
  IN [mean |-> mean, stdDev |-> FSqrt(variance)]

\* The anomalies of one field from data point i on
RECURSIVE fieldAnomalies(_, _, _, _, _)
fieldAnomalies(readings, field, i, threshold, windowSize) ==
  IF i > Len(readings) THEN <<>>
  ELSE LET values == [k \in 1..Len(readings) |-> readings[k][field]]
           value == values[i]
           stats == computeRollingStats(values, i, windowSize)
           zScore == FDiv(FSub(value, stats.mean), stats.stdDev)
           rest == fieldAnomalies(readings, field, i + 1, threshold, windowSize)
       IN IF stats.stdDev = Zero THEN rest
          ELSE IF FGreater(FAbs(zScore), threshold)
            THEN <<[timeMinute |-> readings[i].timeMinute,
                    field |-> field,
                    value |-> value,
                    zScore |-> zScore,
                    expectedMean |-> stats.mean,
                    expectedStdDev |-> stats.stdDev,
                    expectedRange |->
                      [min |-> FSub(stats.mean, FMul(threshold, stats.stdDev)),
                       max |-> FAdd(stats.mean, FMul(threshold, stats.stdDev))]]>>
                 \o rest
          ELSE rest

RECURSIVE allFieldAnomalies(_, _, _, _)
allFieldAnomalies(readings, f, threshold, windowSize) ==
  IF f > Len(fieldsToAnalyze) THEN <<>>
  ELSE fieldAnomalies(readings, fieldsToAnalyze[f], 1, threshold, windowSize)
       \o allFieldAnomalies(readings, f + 1, threshold, windowSize)

\* anomalies.sort((a, b) => a.timeMinute - b.timeMinute): a stable sort
RECURSIVE InsertByTime(_, _)
InsertByTime(sorted, a) ==
  IF sorted = <<>> THEN <<a>>
  ELSE IF sorted[Len(sorted)].timeMinute <= a.timeMinute THEN Append(sorted, a)
  ELSE Append(InsertByTime(SubSeq(sorted, 1, Len(sorted) - 1), a),
              sorted[Len(sorted)])

RECURSIVE SortByTime(_, _)
SortByTime(list, k) ==
  IF k = 0 THEN <<>> ELSE InsertByTime(SortByTime(list, k - 1), list[k])

detectAnomalies(readings, threshold, windowSize) ==
  LET anomalies == allFieldAnomalies(readings, 1, threshold, windowSize)
  IN SortByTime(anomalies, Len(anomalies))

-----------------------------------------------------------------------------
(* detectAnomalies as a state machine: a call is drawn, then made *)

MaxReadings == 3

\* Sensor values; each is a number of the significand width
SampleValues == {<<1, 2>>, <<7, 8>>, <<11, 8>>}

\* A reading at minute t whose analysed fields all carry the value x, except
\* rainfall_rate_mmh, which is 0 (a dry day)
SensorReading(t, x) ==
  [f \in {fieldsToAnalyze[k] : k \in 1..Len(fieldsToAnalyze)} \cup {"timeMinute"} |->
     IF f = "timeMinute" THEN t
     ELSE IF f = "rainfall_rate_mmh" THEN Zero
     ELSE x]

\* Series of at most MaxReadings readings, one per minute from minute 0
Series ==
  UNION {{[k \in 1..n |-> SensorReading(k - 1, xs[k])] : xs \in [1..n -> SampleValues]} :
           n \in 0..MaxReadings}

\* The default threshold 2.5 and a stricter 0.5
Thresholds == {<<5, 2>>, <<1, 2>>}

\* The default window size 60, a short window and an empty one
WindowSizes == {60, 2, 0}

DetectAnomalies ==
  /\ call.op = "detectAnomalies.arguments"
  /\ call' = [op |-> "detectAnomalies",
              readings |-> call.readings,
              threshold |-> call.threshold,
              windowSize |-> call.windowSize,
              result |-> detectAnomalies(call.readings, call.threshold,
                                         call.windowSize)]
  /\ UNCHANGED <<nodeTable, healthVars, dashVars>>

AnomalyNext == DetectAnomalies

AnomalyInit ==
  /\ states = <<>>
  /\ last = NoCall
  /\ nodeTable = <<>>
  /\ call \in {[op |-> "detectAnomalies.arguments", readings |-> r,
                threshold |-> t, windowSize |-> w] :
                 r \in Series, t \in Thresholds, w \in WindowSizes}
  /\ DashIdle

SpecAnomaly == AnomalyInit /\ [][AnomalyNext]_vars

\* Every analysed field has one value throughout the series
IsConstantSeries(readings) ==
  \A k \in 1..Len(fieldsToAnalyze) : \A i, j \in 1..Len(readings) :
     readings[i][fieldsToAnalyze[k]] = readings[j][fieldsToAnalyze[k]]

\* C11: for a series in which every analysed field is constant,
\* detectAnomalies returns the empty list, whatever the threshold and the
\* window size
C11_ConstantSeriesNoAnomalies ==
  (call.op = "detectAnomalies" /\ IsConstantSeries(call.readings))
    => call.result = <<>>

-----------------------------------------------------------------------------
(* The test trigger's evaluation, page.tsx 228-233: the override of a base   *)
(* reading, then evaluateCriticalAlert                                       *)

\* Base readings: those of the simulator and the grid of the rule thresholds
OverrideBases == BaseReadings \cup RuleReadings

TestOverride ==
  /\ call.op = "testOverride.arguments"
  /\ call' = [op |-> "testOverride",
              type |-> call.type,
              baseReading |-> call.baseReading,
              result |-> evaluateCriticalAlert(
                           getTestOverrideReading(call.type, call.baseReading),
                           nodeTable[1])]
  /\ UNCHANGED <<nodeTable, healthVars, dashVars>>

OverrideNext == TestOverride

OverrideInit ==
  /\ states = <<>>
  /\ last = NoCall
  /\ nodeTable = DefaultNodeTable
  /\ call \in {[op |-> "testOverride.arguments", type |-> t, baseReading |-> b] :
                 t \in CriticalAlertTypes, b \in OverrideBases}
  /\ DashIdle

SpecOverride == OverrideInit /\ [][OverrideNext]_vars

\* C12: for every alert type T and every base reading that
\* generateTimeBasedReading produces, evaluateCriticalAlert of the overridden
\* reading returns an alert of type T
C12_OverrideYieldsType ==
  (call.op = "testOverride" /\ call.baseReading \in BaseReadings)
    => (call.result # Null /\ call.result.type = call.type)

-----------------------------------------------------------------------------
(* Further properties of the infection monitor *)

\* In the fleet of two nodes, a node's nearest neighbour is the other node
FleetNeighbour(n) == CHOOSE m \in NodeIds : m # n

\* C13: after a monitoring tick over the whole fleet, a node that is online
\* or at_risk is at_risk exactly when its nearest neighbour is infected
C13_NeighbourRisk ==
  (/\ last.op = "monitorAllNodes"
   /\ ~last.threw
   /\ {last.nodes[k] : k \in 1..Len(last.nodes)} = NodeIds)
  => \A n \in NodeIds :
        StoredState(n).status \in {"online", "at_risk"} =>
          (StoredState(n).status = "at_risk"
             <=> StoredState(FleetNeighbour(n)).status = "infected")

\* The last call left its node infected
LeftInfected ==
  /\ IsMonitorCall
  /\ last.ret = "infected"
  /\ StoredState(last.node).status = "infected"

C15_InfectedAtStampedOnce ==
  LeftInfected =>
    IF PreState(last.node).status = "online"
      THEN StoredState(last.node).infectedAt = last.time
      ELSE StoredState(last.node).infectedAt = PreState(last.node).infectedAt

\* A node infected at one time stayed infected through a call at another time
C15_Witness ==
  /\ LeftInfected
  /\ PreState(last.node).status = "infected"
  /\ Truthy(PreState(last.node).infectedAt)
  /\ last.time # PreState(last.node).infectedAt
  /\ StoredState(last.node).infectedAt = PreState(last.node).infectedAt

AllRecoveryConditionsHold(r, c) ==
  /\ r.tvoc_ugm3 < c.tvocRecoveryThreshold
  /\ r.relative_humidity_pct > c.humidityRecoveryThreshold
  /\ r.soil_moisture_m3m3 > c.soilMoistureRecoveryThreshold

\* C16: an infected node, whatever timestamp it was infected with, is set
\* online, with no triggers and no infectedAt, by a call whose reading
\* satisfies all three recovery conditions
C16_ImmediateRecovery ==
  (/\ IsMonitorCall
   /\ PreState(last.node).status = "infected"
   /\ AllRecoveryConditionsHold(last.reading, last.config))
  => /\ last.ret = "online"
     /\ StoredState(last.node) = OnlineState

\* The last call was one of the two monitor functions
IsMonitorOp == last.op \in {"monitorNodeInfection", "monitorAllNodes"}

\* C18: monitorNodeInfection and monitorAllNodes change a node's status only
\* from online to infected and from infected to online, never to offline or
\* at_risk, and leave the stored state of an offline or at_risk node as it was
C18_MonitorLeavesOfflineAlone ==
  IsMonitorOp =>
    \A n \in NodeIds :
      /\ PreState(n).status \in {"offline", "at_risk"}
           => StoredState(n) = PreState(n)
      /\ StoredState(n).status # PreState(n).status
           => <<PreState(n).status, StoredState(n).status>>
                \in {<<"online", "infected">>, <<"infected", "online">>}

\* A tick evaluated an offline node whose reading fires a trigger, left it
\* offline, and infected the other node
C18_Witness ==
  /\ last.op = "monitorAllNodes"
  /\ last.evaluated = 2
  /\ \E n \in NodeIds :
       /\ PreState(n).status = "offline"
       /\ last.readings[n] # NoReading
       /\ detectInfectionTriggers(last.readings[n], last.config) # <<>>
       /\ StoredState(n) = PreState(n)
       /\ PreState(FleetNeighbour(n)).status = "online"
       /\ StoredState(FleetNeighbour(n)).status = "infected"

------------------------------------------------------------------------------
(* The dashboard seen from a client that opens its page late *)

\* A third tenant's critical alert is active in the table; the sender has
\* its page open and has fetched that alert; the watching client has not
\* opened its page yet.
ReceiveInit ==
  /\ states = <<>>
  /\ last = NoCall
  /\ nodeTable = DashNodeTable
  /\ call = NoCall
  /\ rows = InitialRows
  /\ requests = {}
  /\ responses = {}
  /\ queue = [c \in Clients |-> <<>>]
  /\ client = [c \in Clients |->
                 IF c \in Senders
                   THEN fetchExisting(c, [InitialClient EXCEPT !.mounted = TRUE],
                                      InitialRows)
                   ELSE InitialClient]
  /\ budget = MaxRuns
  /\ step = NoCall

SpecReceive == ReceiveInit /\ [][DashNext]_vars

\* C17: no client's interClusterAlerts list ever holds two entries with the
\* same id, i.e. two InterClusterAlerts for the same source node, hazard type
\* and destination tenant
C17_OneInterClusterAlertPerId ==
  \A c \in Clients :
    \A i, j \in 1..Len(client[c].interClusterAlerts) :
      client[c].interClusterAlerts[i].id = client[c].interClusterAlerts[j].id
        => i = j

-----------------------------------------------------------------------------
(* Distance utilities for nodes (lib/distance): positions are numbers of    *)
(* the analytics code's number type                                         *)

METERS_PER_DEG_LAT == FromInt(111320)

UNIT_METERS == FromInt(10)

\* Math.cos((refLat * Math.PI) / 180) for a reference latitude of at most
\* 2^-10 degrees: the cosine is within 2^-32 of 1 and rounds to 1 at the
\* significand widths taken here
CosOfDegrees(refLat) == FromInt(1)

latLngToXY(lat, lng, refLat, refLng) ==
  LET deltaLat == FSub(lat, refLat)
      deltaLng == FSub(lng, refLng)
      metersPerDegLng == FMul(METERS_PER_DEG_LAT, CosOfDegrees(refLat))
      yMeters == FMul(deltaLat, METERS_PER_DEG_LAT)
      xMeters == FMul(deltaLng, metersPerDegLng)
  IN [x |-> FDiv(xMeters, UNIT_METERS),
      y |-> FDiv(FNeg(yMeters), UNIT_METERS)]

calculateDistance(node1, node2, refLat, refLng) ==
  LET pos1 == latLngToXY(node1.latitude, node1.longitude, refLat, refLng)
      pos2 == latLngToXY(node2.latitude, node2.longitude, refLat, refLng)
      dx == FSub(pos2.x, pos1.x)
      dy == FSub(pos2.y, pos1.y)
  IN FSqrt(FAdd(FMul(dx, dx), FMul(dy, dy)))

\* distances.sort((a, b) => a.distance - b.distance): a stable sort
RECURSIVE InsertByDistance(_, _)
InsertByDistance(sorted, a) ==
  IF sorted = <<>> THEN <<a>>
  ELSE IF FSub(sorted[Len(sorted)].distance, a.distance)[1] <= 0
    THEN Append(sorted, a)
  ELSE Append(InsertByDistance(SubSeq(sorted, 1, Len(sorted) - 1), a),
              sorted[Len(sorted)])

RECURSIVE SortByDistance(_, _)
SortByDistance(list, k) ==
  IF k = 0 THEN <<>> ELSE InsertByDistance(SortByDistance(list, k - 1), list[k])

\* The loop of calculateNodeDistances from target k on
RECURSIVE nodeDistancesFrom(_, _, _, _, _)
nodeDistancesFrom(sourceNode, everyNode, k, refLat, refLng) ==
  IF k > Len(everyNode) THEN <<>>
  ELSE LET targetNode == everyNode[k]
           rest == nodeDistancesFrom(sourceNode, everyNode, k + 1, refLat, refLng)
       IN IF targetNode.node_id = sourceNode.node_id THEN rest
          ELSE <<[node_id |-> targetNode.node_id,
                  latitude |-> targetNode.latitude,
                  longitude |-> targetNode.longitude,
                  distance |-> calculateDistance(sourceNode, targetNode,
                                                 refLat, refLng)]>> \o rest

\* calculateNodeDistances that also leaves out the targets at distance 0
calculateNodeDistancesApart(sourceNode, everyNode, refLat, refLng) ==
  LET distances == SelectSeq(nodeDistancesFrom(sourceNode, everyNode, 1,
                                               refLat, refLng),
                             LAMBDA t : t.distance # Zero)
  IN SortByDistance(distances, Len(distances))

calculateNodeDistances(sourceNode, everyNode, refLat, refLng) ==
  LET distances == nodeDistancesFrom(sourceNode, everyNode, 1, refLat, refLng)
  IN SortByDistance(distances, Len(distances))

\* The Map of one row: target id to distance
RowMap(nodeDistances) ==
  [id \in {nodeDistances[k].node_id : k \in 1..Len(nodeDistances)} |->
     LET k == CHOOSE j \in 1..Len(nodeDistances) :
                /\ nodeDistances[j].node_id = id
                /\ \A i \in (j + 1)..Len(nodeDistances) :
                      nodeDistances[i].node_id # id
     IN nodeDistances[k].distance]

\* Map<nodeId, Map<otherNodeId, distance>>; a later set of a key overwrites
calculateDistanceMatrix(nodes, refLat, refLng) ==
  [id \in {nodes[k].node_id : k \in 1..Len(nodes)} |->
     LET k == CHOOSE j \in 1..Len(nodes) :
                /\ nodes[j].node_id = id
                /\ \A i \in (j + 1)..Len(nodes) : nodes[i].node_id # id
     IN RowMap(calculateNodeDistances(nodes[k], nodes, refLat, refLng))]

getNearestNeighbor(sourceNode, everyNode, refLat, refLng) ==
  LET distances == calculateNodeDistances(sourceNode, everyNode, refLat, refLng)
  IN IF Len(distances) > 0 THEN distances[1] ELSE Null

-----------------------------------------------------------------------------
(* The distance utilities as a state machine: a call is drawn, then made *)

MaxPoints == 3

PointIds == <<"p1", "p2", "p3", "p4">>

\* Reference coordinates in degrees
ReferenceCoordinates == {Zero, <<1, 1024>>}

\* Positions <<latitude, longitude>> on a line and off it
Positions ==
  {<<Zero, Zero>>, <<<<1, 1024>>, Zero>>, <<<<3, 1024>>, Zero>>,
   <<Zero, <<1, 1024>>>>}

\* Lists of up to MaxPoints nodes with distinct ids
PointLists ==
  UNION {{[k \in 1..n |-> [node_id |-> PointIds[k],
                           latitude |-> pos[k][1],
                           longitude |-> pos[k][2]]] :
            pos \in [1..n -> Positions]} :
         n \in 0..MaxPoints}

DistanceInit ==
  /\ states = <<>>
  /\ last = NoCall
  /\ nodeTable = <<>>
  /\ call \in {[op |-> "distance.arguments", nodes |-> nodes,
                refLat |-> refLat, refLng |-> refLng] :
                 nodes \in PointLists, refLat \in ReferenceCoordinates,
                 refLng \in ReferenceCoordinates}
  /\ DashIdle

CalculateDistanceMatrix ==
  /\ call.op = "distance.arguments"
  /\ call' = [op |-> "calculateDistanceMatrix", nodes |-> call.nodes,
              refLat |-> call.refLat, refLng |-> call.refLng,
              matrix |-> calculateDistanceMatrix(call.nodes, call.refLat,
                                                 call.refLng)]
  /\ UNCHANGED <<healthVars, nodeTable, dashVars>>

GetNearestNeighbor ==
  /\ call.op = "distance.arguments"
  /\ \E k \in 1..Len(call.nodes) :
       call' = [op |-> "getNearestNeighbor", nodes |-> call.nodes,
                refLat |-> call.refLat, refLng |-> call.refLng,
                sourceNode |-> call.nodes[k],
                nearest |-> getNearestNeighbor(call.nodes[k], call.nodes,
                                               call.refLat, call.refLng)]
  /\ UNCHANGED <<healthVars, nodeTable, dashVars>>

DistanceNext == CalculateDistanceMatrix \/ GetNearestNeighbor

SpecDistance == DistanceInit /\ [][DistanceNext]_vars

\* The ids of a node list
IdsOf(nodes) == {nodes[k].node_id : k \in 1..Len(nodes)}

\* C19: for nodes with distinct ids, calculateDistanceMatrix has one row per
\* node, each row has an entry for every other node and none for the node
\* itself, and the matrix is symmetric; getNearestNeighbor returns null when
\* there is no other node and otherwise a node of minimum distance
C19_DistanceMatrixSymmetric ==
  /\ call.op = "calculateDistanceMatrix" =>
       /\ DOMAIN call.matrix = IdsOf(call.nodes)
       /\ \A a \in IdsOf(call.nodes) :
            /\ DOMAIN call.matrix[a] = IdsOf(call.nodes) \ {a}
            /\ \A b \in IdsOf(call.nodes) \ {a} :
                 /\ ~IsNaN(call.matrix[a][b])
                 /\ call.matrix[a][b] = call.matrix[b][a]
  /\ call.op = "getNearestNeighbor" =>
       IF Len(call.nodes) = 1 THEN call.nearest = Null
       ELSE /\ call.nearest # Null
            /\ call.nearest.node_id \in IdsOf(call.nodes) \ {call.sourceNode.node_id}
            /\ \A k \in 1..Len(call.nodes) :
                 call.nodes[k].node_id # call.sourceNode.node_id =>
                   /\ call.nearest.distance
                        = calculateDistance(call.sourceNode,
                            CHOOSE n \in {call.nodes[j] : j \in 1..Len(call.nodes)} :
                              n.node_id = call.nearest.node_id,
                            call.refLat, call.refLng)
                   /\ ~FLess(calculateDistance(call.sourceNode, call.nodes[k],
                                               call.refLat, call.refLng),
                             call.nearest.distance)

\* A matrix over three nodes at three different distances from one another
C19_Witness ==
  /\ call.op = "calculateDistanceMatrix"
  /\ Len(call.nodes) = 3
  /\ call.matrix["p1"]["p2"] # call.matrix["p1"]["p3"]
  /\ call.matrix["p1"]["p2"] # call.matrix["p2"]["p3"]
  /\ call.matrix["p1"]["p3"] # call.matrix["p2"]["p3"]
  /\ call.matrix["p1"]["p2"] # Zero

-----------------------------------------------------------------------------
(* lib/analytics/correlationAnalysis.ts *)

\* x.reduce((sum, xi, i) => sum + xi * y[i], 0)
RECURSIVE SumProducts(_, _, _)
SumProducts(x, y, k) ==
  IF k = 0 THEN Zero ELSE FAdd(SumProducts(x, y, k - 1), FMul(x[k], y[k]))

pearsonCorrelation(x, y) ==
  IF Len(x) # Len(y) \/ Len(x) = 0 THEN Zero
  ELSE LET n == FromInt(Len(x))
           sumX == FSum(x, Len(x))
           sumY == FSum(y, Len(y))
           sumXY == SumProducts(x, y, Len(x))
           sumX2 == SumProducts(x, x, Len(x))
           sumY2 == SumProducts(y, y, Len(y))
           numerator == FSub(FMul(n, sumXY), FMul(sumX, sumY))
           denominator ==
             FSqrt(FMul(FSub(FMul(n, sumX2), FMul(sumX, sumX)),
                        FSub(FMul(n, sumY2), FMul(sumY, sumY))))
       IN IF denominator = Zero THEN Zero ELSE FDiv(numerator, denominator)

\* The default of windowMinutes
DefaultWindowMinutes == 30

\* The last minute of a day
LastMinute == 1439

extractTimeWindow(readings, anomalyTime, windowMinutes) ==
  LET startTime == IF anomalyTime - windowMinutes > 0
                     THEN anomalyTime - windowMinutes ELSE 0
      endTime == IF anomalyTime + windowMinutes < LastMinute
                   THEN anomalyTime + windowMinutes ELSE LastMinute
  IN SelectSeq(readings,
               LAMBDA r : r.timeMinute >= startTime /\ r.timeMinute <= endTime)

\* windowData.map((r) => r[field])
FieldValues(windowData, field) ==
  [k \in 1..Len(windowData) |-> windowData[k][field]]

\* The fields of computeCorrelationMatrix: the same fifteen, in the same order
fields == fieldsToAnalyze

\* The row of field1 in the matrix
correlationRow(readings, anomaly, windowMinutes, field1) ==
  LET windowData == extractTimeWindow(readings, anomaly.timeMinute, windowMinutes)
  IN [field2 \in {fields[k] : k \in 1..Len(fields)} |->
        pearsonCorrelation(FieldValues(windowData, field1),
                           FieldValues(windowData, field2))]

computeCorrelationMatrix(readings, anomaly, windowMinutes) ==
  [field1 \in {fields[k] : k \in 1..Len(fields)} |->
     correlationRow(readings, anomaly, windowMinutes, field1)]

\* The forEach of getTopCorrelations over the row of the anomalous field,
\* from field k on
RECURSIVE correlationsFrom(_, _, _, _, _, _)
correlationsFrom(row, k, anomaly, readings, anomalyReading, correlationThreshold) ==
  IF k > Len(fields) THEN <<>>
  ELSE LET field == fields[k]
           correlation == row[field]
           rest == correlationsFrom(row, k + 1, anomaly, readings, anomalyReading,
                                    correlationThreshold)
       IN IF field = anomaly.field
             \/ FLess(FAbs(correlation), correlationThreshold)
            THEN rest
          ELSE LET currentValue == anomalyReading[field]
                   fieldValues ==
                     FieldValues(extractTimeWindow(readings, anomaly.timeMinute,
                                                   DefaultWindowMinutes), field)
                   fieldMean == FDiv(FSum(fieldValues, Len(fieldValues)),
                                     FromInt(Len(fieldValues)))
               IN <<[field |-> field,
                     correlation |-> correlation,
                     deltaValue |-> FSub(currentValue, fieldMean),
                     currentValue |-> currentValue]>> \o rest

\* correlations.sort((a, b) => Math.abs(b.correlation) - Math.abs(a.correlation)):
\* a stable sort; a comparison that yields NaN counts as equal
RECURSIVE InsertByCorrelation(_, _)
InsertByCorrelation(sorted, a) ==
  IF sorted = <<>> THEN <<a>>
  ELSE IF FSub(FAbs(a.correlation), FAbs(sorted[Len(sorted)].correlation))[1] <= 0
    THEN Append(sorted, a)
  ELSE Append(InsertByCorrelation(SubSeq(sorted, 1, Len(sorted) - 1), a),
              sorted[Len(sorted)])

RECURSIVE SortByCorrelation(_, _)
SortByCorrelation(list, k) ==
  IF k = 0 THEN <<>>
  ELSE InsertByCorrelation(SortByCorrelation(list, k - 1), list[k])

\* matrix.get(anomaly.field) is the one row of computeCorrelationMatrix that
\* is read
getTopCorrelations(anomaly, readings, correlationThreshold, topN) ==
  LET anomalyFieldCorrelations ==
        correlationRow(readings, anomaly, DefaultWindowMinutes, anomaly.field)
      found == SelectSeq(readings, LAMBDA r : r.timeMinute = anomaly.timeMinute)
  IN IF anomaly.field \notin {fields[k] : k \in 1..Len(fields)} THEN <<>>
     ELSE IF found = <<>> THEN <<>>
     ELSE LET correlations ==
                correlationsFrom(anomalyFieldCorrelations, 1, anomaly, readings,
                                 found[1], correlationThreshold)
              sorted == SortByCorrelation(correlations, Len(correlations))
          IN SubSeq(sorted, 1, IF Len(sorted) < topN THEN Len(sorted) ELSE topN)

-----------------------------------------------------------------------------
(* getTopCorrelations as a state machine: a call is drawn, then made *)

\* The defaults of correlationThreshold (0.7) and topN
DefaultCorrelationThreshold == Round(7, 10)

DefaultTopN == 5

\* Minutes between two readings of a series
ReadingInterval == 25

\* The values of the fields other than the air temperature
OtherValues == {<<7, 8>>, <<11, 8>>}

\* Series of at most MaxReadings readings, ReadingInterval minutes apart: the
\* air temperature follows xs, every other analysed field follows ys (and
\* rainfall_rate_mmh is 0)
CorrelationSeries ==
  UNION {{[k \in 1..n |->
             [SensorReading((k - 1) * ReadingInterval, ys[k])
                EXCEPT !.air_temperature_c = xs[k]]] :
            xs \in [1..n -> SampleValues], ys \in [1..n -> OtherValues]} :
         n \in 1..MaxReadings}

\* Anomalies: at the minute of a series' first or second reading (the latter
\* absent from a series of one reading), in either of two fields
Anomalies ==
  {[timeMinute |-> t, field |-> f] :
     t \in {0, ReadingInterval}, f \in {"air_temperature_c", "soil_ph"}}

GetTopCorrelations ==
  /\ call.op = "getTopCorrelations.arguments"
  /\ call' = [op |-> "getTopCorrelations",
              anomaly |-> call.anomaly,
              readings |-> call.readings,
              result |-> getTopCorrelations(call.anomaly, call.readings,
                                            DefaultCorrelationThreshold,
                                            DefaultTopN)]
  /\ UNCHANGED <<nodeTable, healthVars, dashVars>>

CorrelationNext == GetTopCorrelations

CorrelationInit ==
  /\ states = <<>>
  /\ last = NoCall
  /\ nodeTable = <<>>
  /\ call \in {[op |-> "getTopCorrelations.arguments", anomaly |-> a,
                readings |-> r] :
                 r \in CorrelationSeries, a \in Anomalies}
  /\ DashIdle

SpecCorrelation == CorrelationInit /\ [][CorrelationNext]_vars

\* The window of the last call and a field's values in it
CallWindow ==
  extractTimeWindow(call.readings, call.anomaly.timeMinute, DefaultWindowMinutes)

IsConstantIn(windowData, field) ==
  \A i, j \in 1..Len(windowData) : windowData[i][field] = windowData[j][field]

\* |r| >= threshold
AtLeast(r, threshold) == ~IsNaN(r) /\ ~FLess(FAbs(r), threshold)

\* The result has at most 5 entries, none for the anomalous field, each with
\* the correlation over the window, of magnitude at least 0.7, in
\* non-increasing order of magnitude
C20_TopCorrelationsShape ==
  call.op = "getTopCorrelations" =>
    /\ Len(call.result) <= DefaultTopN
    /\ \A k \in 1..Len(call.result) :
         /\ call.result[k].field # call.anomaly.field
         /\ call.result[k].correlation
              = pearsonCorrelation(FieldValues(CallWindow, call.anomaly.field),
                                   FieldValues(CallWindow, call.result[k].field))
         /\ AtLeast(call.result[k].correlation, DefaultCorrelationThreshold)
    /\ \A k \in 1..(Len(call.result) - 1) :
         ~FLess(FAbs(call.result[k].correlation),
                FAbs(call.result[k + 1].correlation))

\* No field that is constant in the window is reported, and none is when the
\* anomalous field is constant in the window
C20_ConstantNotReported ==
  call.op = "getTopCorrelations" =>
    \A k \in 1..Len(call.result) :
      /\ ~IsConstantIn(CallWindow, call.result[k].field)
      /\ ~IsConstantIn(CallWindow, call.anomaly.field)

\* C20: getTopCorrelations returns at most 5 entries, never the anomalous
\* field itself, only fields whose correlation with the anomalous field over
\* the readings within 30 minutes of the anomaly has magnitude at least 0.7,
\* in non-increasing order of magnitude; a field that is constant in the
\* window, or any field when the anomalous field is constant there, has
\* correlation 0 and is not reported
C20_TopCorrelations == C20_TopCorrelationsShape /\ C20_ConstantNotReported

-----------------------------------------------------------------------------
(* detectInfectionTriggers and shouldNodeBeInfected as a state machine: a    *)
(* call is drawn, then made                                                  *)

DetectInfectionTriggers ==
  /\ call.op = "detection.arguments"
  /\ call' = [op |-> "detectInfectionTriggers", reading |-> call.reading,
              config |-> call.config,
              result |-> detectInfectionTriggers(call.reading, call.config)]
  /\ UNCHANGED <<healthVars, nodeTable, dashVars>>

ShouldNodeBeInfected ==
  /\ call.op = "detection.arguments"
  /\ call' = [op |-> "shouldNodeBeInfected", reading |-> call.reading,
              config |-> call.config,
              result |-> shouldNodeBeInfected(call.reading, call.config)]
  /\ UNCHANGED <<healthVars, nodeTable, dashVars>>

DetectionNext == DetectInfectionTriggers \/ ShouldNodeBeInfected

DetectionInit ==
  /\ states = <<>>
  /\ last = NoCall
  /\ nodeTable = <<>>
  /\ call \in {[op |-> "detection.arguments", reading |-> r, config |-> c] :
                 r \in Readings, c \in Configs}
  /\ DashIdle

SpecDetection == DetectionInit /\ [][DetectionNext]_vars

\* The violated thresholds of a reading, as trigger type, field, value,
\* threshold and severity
ViolatedThresholds(reading, config) ==
  {x \in {<<"tvoc_critical", "tvoc_ugm3", reading.tvoc_ugm3,
            config.tvocThreshold, "critical",
            reading.tvoc_ugm3 > config.tvocThreshold>>,
          <<"low_humidity", "relative_humidity_pct",
            reading.relative_humidity_pct, config.lowHumidityThreshold,
            "severe",
            reading.relative_humidity_pct < config.lowHumidityThreshold>>,
          <<"low_soil_moisture", "soil_moisture_m3m3",
            reading.soil_moisture_m3m3, config.lowSoilMoistureThreshold,
            "critical",
            reading.soil_moisture_m3m3 < config.lowSoilMoistureThreshold>>} :
     x[6]}

\* The triggers of a list, in the same form
TriggersOf(list) ==
  {<<list[k].type, list[k].field, list[k].value, list[k].threshold,
     list[k].severity, TRUE>> : k \in 1..Len(list)}

HasDeadBand(c) ==
  /\ c.tvocRecoveryThreshold <= c.tvocThreshold
  /\ c.humidityRecoveryThreshold >= c.lowHumidityThreshold
  /\ c.soilMoistureRecoveryThreshold >= c.lowSoilMoistureThreshold

\* The last call made an infected node recover
Recovered ==
  /\ IsMonitorCall
  /\ PreState(last.node).status = "infected"
  /\ last.ret = "online"

\* A call of monitorNodeInfection changes the status at most once: the
\* returned status is the stored one, reached from the previous one by at most
\* one of online to infected and infected to online
C27_OneChangePerCall ==
  IsMonitorCall =>
    /\ last.ret = StoredState(last.node).status
    /\ Recovered => StoredState(last.node) = OnlineState

\* The next call after a recovery, with the same reading and configuration
\* having a dead band, returns online
C27_SameReadingStaysOnline ==
  [][(/\ Recovered
      /\ HasDeadBand(last.config)
      /\ last'.op = "monitorNodeInfection"
      /\ last'.node = last.node
      /\ last'.reading = last.reading
      /\ last'.config = last.config)
     => (last'.ret = "online" /\ states'[last.node] = OnlineState)]_vars

\* C27: under a configuration whose recovery thresholds are at least as
\* strict as the infection thresholds, a reading that makes an infected node
\* recover fires no infection trigger, and feeding it again on the next tick
\* leaves the node online; a single call changes the status at most once
C27_NoFlapping ==
  /\ [](Recovered /\ HasDeadBand(last.config)
          => detectInfectionTriggers(last.reading, last.config) = <<>>)
  /\ C27_SameReadingStaysOnline
  /\ []C27_OneChangePerCall

\* An infected node recovered under the default configuration, whose
\* thresholds leave a dead band
C27_Witness ==
  /\ Recovered
  /\ last.config = DEFAULT_INFECTION_CONFIG
  /\ HasDeadBand(last.config)
  /\ Len(PreState(last.node).triggers) > 0
  /\ StoredState(last.node) = OnlineState

-----------------------------------------------------------------------------
(* The health store under calls of monitorNodeInfection alone *)

\* A normal reading, one with a tVOC above the threshold, one that is dry in
\* air and soil, and a missing one
MonitorReadings ==
  FleetReadings
    \cup {[tvoc_ugm3 |-> 40, relative_humidity_pct |-> 15, soil_moisture_m3m3 |-> 5],
          NoReading}

MonitorNext ==
  \E n \in NodeIds, r \in MonitorReadings, t \in TimeInputs, cfg \in Configs :
     MonitorNode(n, r, t, cfg)

SpecMonitor == HealthInit /\ [][MonitorNext]_vars

\* C28: in every state reached from the empty store by calls of
\* monitorNodeInfection, each node's status is infected if and only if its
\* trigger list is non-empty, if and only if infectedAt is present, and
\* anomalyCount equals the number of triggers
C28_HealthStoreInvariant ==
  \A n \in NodeIds :
    /\ StoredState(n).status \in {"online", "infected"}
    /\ StoredState(n).status = "infected" <=> StoredState(n).triggers # <<>>
    /\ StoredState(n).status = "infected" <=> StoredState(n).infectedAt # NoTime
    /\ StoredState(n).anomalyCount = Len(StoredState(n).triggers)

\* One node is infected with two triggers while the other has recovered
C28_Witness ==
  \E n \in NodeIds :
    /\ n \in DOMAIN states
    /\ states[n].status = "infected"
    /\ Len(states[n].triggers) = 2
    /\ IsMonitorCall
    /\ last.node = FleetNeighbour(n)
    /\ PreState(last.node).status = "infected"
    /\ last.ret = "online"


-----------------------------------------------------------------------------
(* The health store with its other writers and a caller of getAllStates *)

\* Map.delete
MapDelete(m, k) == [x \in (DOMAIN m) \ {k} |-> m[x]]

\* A caller takes getAllStates() and adds or deletes an entry of the map it
\* got; the store changes only if that map is the store's own Map object
ModifyAllStates(n, delete) ==
  LET all == getAllStates(states)
      modified == IF delete THEN MapDelete(all.entries, n)
                            ELSE MapSet(all.entries, n, OnlineState)
  IN /\ states' = IF all.map = "this.states" THEN modified ELSE states
     /\ last' = [op |-> "getAllStates", node |-> n, pre |-> states,
                 returned |-> modified]
     /\ UNCHANGED <<engineVars, dashVars>>

StoreNext ==
  \/ \E n \in NodeIds, r \in MonitorReadings, t \in SimTimes :
        MonitorNode(n, r, t, DEFAULT_INFECTION_CONFIG)
  \/ \E n \in NodeIds : SetAtRisk(n)
  \/ \E n \in NodeIds : SetOffline(n)
  \/ \E n \in NodeIds, delete \in BOOLEAN : ModifyAllStates(n, delete)

SpecStore == HealthInit /\ [][StoreNext]_vars

\* The status a status-only setter writes
StatusWritten == IF last.op = "setAtRisk" THEN "at_risk" ELSE "offline"

\* C29: setAtRisk and setOffline change only the status of the addressed
\* node's record (triggers, infectedAt and anomalyCount keep their values,
\* also for an infected node), touch no other node's record, and adding or
\* deleting entries of the map returned by getAllStates leaves the store as
\* it was.
C29_StatusOnlySetters ==
  /\ last.op \in {"setAtRisk", "setOffline"}
       => /\ DOMAIN states = DOMAIN last.pre \cup {last.node}
          /\ states[last.node] = [PreState(last.node) EXCEPT !.status = StatusWritten]
          /\ \A m \in DOMAIN states \ {last.node} : states[m] = last.pre[m]
  /\ last.op = "getAllStates" => states = last.pre

\* An infected node with two triggers is set at risk while the other node has
\* a record of its own
C29_Witness ==
  /\ last.op = "setAtRisk"
  /\ PreState(last.node).status = "infected"
  /\ Len(PreState(last.node).triggers) = 2
  /\ states[last.node].status = "at_risk"
  /\ FleetNeighbour(last.node) \in DOMAIN states

-----------------------------------------------------------------------------
(* Order of the node list in monitorAllNodes *)

\* The orderings of a list of distinct elements
Orderings(list) ==
  {p \in [1..Len(list) -> {list[k] : k \in 1..Len(list)}] :
     \A i, j \in 1..Len(list) : i # j => p[i] # p[j]}

\* The last tick gives the same store and the same status map as the tick
\* over every other ordering of its node list, and the map holds the stored
\* status of each node of the list
TickOrderIndependent ==
  /\ ~last.threw
  /\ DOMAIN last.statuses = {last.nodes[k] : k \in 1..Len(last.nodes)}
  /\ \A n \in DOMAIN last.statuses : last.statuses[n] = states[n].status
  /\ \A p \in Orderings(last.nodes) :
       LET res == monitorAllNodes(last.pre, p, last.readings, last.time, last.config)
       IN /\ res.states = states
          /\ res.statuses = last.statuses
          /\ ~res.threw

\* C30: in monitorAllNodes over a list of distinct node ids the resulting
\* store and the returned status map (one entry per node, equal to the
\* node's stored status after the tick) are the same for every ordering of
\* the node list.
C30_OrderIndependent ==
  last.op = "monitorAllNodes" => TickOrderIndependent

\* The same for the ticks in which every node of the list has a reading
C30_OrderIndependentWithReadings ==
  (/\ last.op = "monitorAllNodes"
   /\ \A k \in 1..Len(last.nodes) : last.readings[last.nodes[k]] # NoReading)
  => TickOrderIndependent

\* A tick over two nodes with readings that infects one of them
C30_TwoNodeTick ==
  /\ last.op = "monitorAllNodes"
  /\ Len(last.nodes) = 2
  /\ \A k \in 1..2 : last.readings[last.nodes[k]] # NoReading
  /\ \E k \in 1..2 : /\ PreState(last.nodes[k]).status = "online"
                     /\ states[last.nodes[k]].status = "infected"

-----------------------------------------------------------------------------
(* The result of discovery *)

\* Distance of node n from the source of the last call
DistanceFromSource(n) ==
  haversineDistance(call.sourceNode.latitude, call.sourceNode.longitude,
                    n.latitude, n.longitude)

\* The nodes of the table other than the source
OtherNodes == {n \in SeqRange(nodeTable) : n.node_id # call.sourceNode.node_id}

\* Node n is the first node of the table at the least distance from the source
FirstClosest(n) ==
  /\ \A m \in OtherNodes : DistanceFromSource(n) <= DistanceFromSource(m)
  /\ \E k \in 1..Len(nodeTable) :
       /\ nodeTable[k] = n
       /\ \A j \in 1..(k - 1) :
            nodeTable[j] \in OtherNodes
              => DistanceFromSource(nodeTable[j]) > DistanceFromSource(n)

\* C25: findNodesWithFallback never returns the source node; with another
\* node within the primary radius it returns exactly the nodes within that
\* radius; otherwise it returns at most one node, which lies within the
\* fallback radius and is the first of the list at the least distance among
\* the other nodes; the result is empty exactly when no other node lies
\* within the fallback radius.
C25_FallbackResult ==
  call.op = "findNodesWithFallback" =>
    LET res == call.result
        near == OthersWithin(call.sourceNode, nodeTable, ALERT_RADIUS_METERS)
        far == OthersWithin(call.sourceNode, nodeTable, FALLBACK_RADIUS_METERS)
    IN /\ \A k \in 1..Len(res) : res[k].node_id # call.sourceNode.node_id
       /\ near # {} => /\ SeqRange(res) = near
                       /\ Len(res) = Cardinality(near)
       /\ near = {} => /\ Len(res) <= 1
                       /\ Len(res) = 1 => /\ res[1] \in far
                                          /\ FirstClosest(res[1])
       /\ res = <<>> <=> far = {}

\* Nobody within the primary radius and two nodes at the same distance
\* within the fallback radius: one of them was returned
C25_Witness ==
  /\ call.op = "findNodesWithFallback"
  /\ OthersWithin(call.sourceNode, nodeTable, ALERT_RADIUS_METERS) = {}
  /\ Len(call.result) = 1
  /\ \E m \in OthersWithin(call.sourceNode, nodeTable, FALLBACK_RADIUS_METERS) :
       /\ m # call.result[1]
       /\ DistanceFromSource(m) = DistanceFromSource(call.result[1])

-----------------------------------------------------------------------------
(* The sender's own alert under changes of trigger type and test node *)

\* The sender owns two nodes
SenderNodeTable ==
  DashNodeTable
    \o <<[node_id |-> "a2", latitude |-> 3, longitude |-> 0, user_id |-> "A"]>>

SenderTriggerTypes == {"pest_outbreak", "chemical_hazard"}

SenderInit ==
  /\ states = <<>>
  /\ last = NoCall
  /\ nodeTable = SenderNodeTable
  /\ call = NoCall
  /\ rows = InitialRows
  /\ requests = {}
  /\ responses = {}
  /\ queue = [c \in Clients |-> <<>>]
  /\ client = [c \in Clients |->
                 fetchExisting(c, [InitialClient EXCEPT !.mounted = TRUE],
                               InitialRows)]
  /\ budget = MaxRuns
  /\ step = NoCall

SenderNext ==
  \/ \E c \in Senders, type \in SenderTriggerTypes :
        handleTestTrigger(c, type) /\ UNCHANGED <<healthVars, engineVars>>
  \/ \E c \in Senders : handleClearTestTrigger(c) /\ UNCHANGED <<healthVars, engineVars>>
  \/ \E c \in Senders, k \in 1..Len(nodeTable) :
        /\ nodeTable[k].user_id = c
        /\ handleTestNodeChange(c, nodeTable[k].node_id)
        /\ UNCHANGED <<healthVars, engineVars>>
  \/ \E c \in Senders : Tick(c) /\ UNCHANGED <<healthVars, engineVars>>
  \/ \E resp \in responses : ThenInsert(resp) /\ UNCHANGED <<healthVars, engineVars>>
  \/ \E c \in Clients : Deliver(c) /\ UNCHANGED <<healthVars, engineVars>>
  \/ \E req \in requests : ExecuteUpdate(req) /\ UNCHANGED <<healthVars, engineVars>>
  \/ \E req \in requests : ExecuteInsert(req) /\ UNCHANGED <<healthVars, engineVars>>

SpecSender == SenderInit /\ [][SenderNext]_vars

\* The alerts an evaluation in client state cl can produce
EvaluationsOf(c, cl) ==
  {evaluateCriticalAlert(getTestOverrideReading(cl.testTriggerType, b),
                         testNode(c, cl)) : b \in BaseReadings}

\* C23: the sender's criticalAlerts list holds at most one alert whose
\* sourceClusterId is the local user; while a trigger is set it is the alert
\* of the latest evaluation (the one for the trigger type and test node now
\* selected), after a clear there is none, and an evaluation that matches
\* the same rule again replaces the alert instead of adding a second one.
C23_OneLocalAlert ==
  \A c \in Senders :
    LET local == LocalAlerts(client[c].criticalAlerts, c)
    IN /\ Len(local) <= 1
       /\ client[c].testTriggerType = NoTrigger => local = <<>>
       /\ client[c].testTriggerType # NoTrigger
            => /\ Len(local) = 1
               /\ local[1] \in EvaluationsOf(c, client[c])

\* A second evaluation for the same trigger type has run (a tick) while the
\* first one's alert was in the list and an external alert was held
C23_Witness ==
  /\ step.op = "tick"
  /\ budget = 0
  /\ \E c \in Senders :
       /\ step.client = c
       /\ client[c].testTriggerType = "chemical_hazard"
       /\ Len(LocalAlerts(client[c].criticalAlerts, c)) = 1
       /\ Len(ExternalAlerts(client[c].criticalAlerts, c)) = 1

-----------------------------------------------------------------------------
(* lib/alertEngine.ts: buildAlertLines, and the effect of the dashboard that *)
(* keeps alertLines                                                          *)

\* The inner loop: the lines of one inter-cluster alert
linesOf(ica) ==
  [j \in 1..Len(ica.affectedNodeIds) |->
     [sourceNodeId |-> ica.sourceNodeId,
      targetNodeId |-> ica.affectedNodeIds[j],
      type |-> ica.type]]

RECURSIVE linesFrom(_, _)
linesFrom(interClusterAlerts, k) ==
  IF k > Len(interClusterAlerts) THEN <<>>
  ELSE linesOf(interClusterAlerts[k]) \o linesFrom(interClusterAlerts, k + 1)

\* buildAlertLines that draws one line per alert, to its first affected node
buildAlertLinesPerAlert(criticalAlerts, interClusterAlerts) ==
  [k \in 1..Len(interClusterAlerts) |-> linesOf(interClusterAlerts[k])[1]]

buildAlertLines(criticalAlerts, interClusterAlerts) ==
  linesFrom(interClusterAlerts, 1)

\* Critical alerts of two tenants, of different types
LineCriticals ==
  {makeCriticalAlert(SenderNodeTable[2], "pest_outbreak", <<"pest_outbreak">>),
   makeCriticalAlert(SenderNodeTable[3], "chemical_hazard", <<"chemical_hazard">>)}

\* The inter-cluster alerts derived from them on the sender's table
LineAlerts ==
  UNION {SeqRange(deduplicateClusterAlerts(
                    ca, findNodesWithFallback(
                          CHOOSE n \in SeqRange(SenderNodeTable) :
                            n.node_id = ca.sourceNodeId,
                          SenderNodeTable))) : ca \in LineCriticals}

MaxAlerts == 2

ListsOf(S) == UNION {[1..n -> S] : n \in 0..MaxAlerts}

LinesInit ==
  /\ states = <<>>
  /\ last = NoCall
  /\ nodeTable = SenderNodeTable
  /\ call = [op |-> "alertLines", criticalAlerts |-> <<>>,
             interClusterAlerts |-> <<>>, alertLines |-> <<>>, pending |-> FALSE]
  /\ DashIdle

\* setCriticalAlerts: the list changes and the alert lines effect is due
SetCriticalAlerts(list) ==
  /\ call' = [call EXCEPT !.criticalAlerts = list, !.pending = TRUE]
  /\ UNCHANGED <<nodeTable, healthVars, dashVars>>

\* setInterClusterAlerts
SetInterClusterAlerts(list) ==
  /\ call' = [call EXCEPT !.interClusterAlerts = list, !.pending = TRUE]
  /\ UNCHANGED <<nodeTable, healthVars, dashVars>>

\* The effect on [criticalAlerts, interClusterAlerts]
AlertLinesEffect ==
  /\ call.pending
  /\ call' = [call EXCEPT
                !.alertLines = buildAlertLines(call.criticalAlerts,
                                               call.interClusterAlerts),
                !.pending = FALSE]
  /\ UNCHANGED <<nodeTable, healthVars, dashVars>>

LinesNext ==
  \/ \E list \in ListsOf(LineCriticals) : SetCriticalAlerts(list)
  \/ \E list \in ListsOf(LineAlerts) : SetInterClusterAlerts(list)
  \/ AlertLinesEffect

SpecLines == LinesInit /\ [][LinesNext]_vars

\* The number of affected nodes of the first k alerts of a list
RECURSIVE AffectedBefore(_, _)
AffectedBefore(list, k) ==
  IF k = 0 THEN 0
  ELSE AffectedBefore(list, k - 1) + Len(list[k].affectedNodeIds)

\* C22: once the effect has run, alertLines holds exactly one line per
\* (inter-cluster alert, affected node id) pair of the current list, with
\* that alert's sourceNodeId and type, as many lines as the alerts have
\* affected nodes in all; it is what buildAlertLines gives for the current
\* lists, and that is the same for every list of critical alerts.
C22_AlertLines ==
  ~call.pending =>
    LET icas == call.interClusterAlerts
        lines == call.alertLines
    IN /\ lines = buildAlertLines(call.criticalAlerts, icas)
       /\ Len(lines) = AffectedBefore(icas, Len(icas))
       /\ \A k \in 1..Len(icas) :
            \A j \in 1..Len(icas[k].affectedNodeIds) :
               lines[AffectedBefore(icas, k - 1) + j]
                 = [sourceNodeId |-> icas[k].sourceNodeId,
                    targetNodeId |-> icas[k].affectedNodeIds[j],
                    type |-> icas[k].type]
       /\ \A other \in ListsOf(LineCriticals) :
            buildAlertLines(other, icas) = lines

\* The effect has run for two alerts, one of them with two affected nodes,
\* while critical alerts are held
C22_Witness ==
  /\ ~call.pending
  /\ Len(call.interClusterAlerts) = 2
  /\ Len(call.alertLines) = 3
  /\ call.criticalAlerts # <<>>

-----------------------------------------------------------------------------
(* The receiver's alerts against the alerts table *)

\* Ids of the rows client c is to display: critical, active, of another
\* tenant and on a node the client knows
DisplayableRows(c) ==
  {rows[k].id : k \in {j \in 1..Len(rows) :
                         /\ rows[j].is_critical
                         /\ rows[j].is_active
                         /\ rows[j].source_cluster_id # c
                         /\ RemoteCritical(c, rows[j]) # Null}}

\* Ids of the externally sourced critical alerts client c holds
DisplayedAlerts(c) == {a.id : a \in SeqRange(ExternalAlerts(client[c].criticalAlerts, c))}

\* C26: once every response and event in flight has been processed, the
\* externally sourced CriticalAlerts of a client that has opened the page
\* are exactly those of the rows that are critical, active, of another
\* tenant and on a known node: no deactivated alert remains and no active
\* one is missing.
C26_ReceiverConsistent ==
  Quiescent => \A c \in Clients : client[c].mounted
                                    => DisplayedAlerts(c) = DisplayableRows(c)

-----------------------------------------------------------------------------
(* detectAnomalies against the exact statistics of the window *)

RECURSIVE SumInts(_, _)
SumInts(xs, k) == IF k = 0 THEN 0 ELSE SumInts(xs, k - 1) + xs[k]

\* The window [max(0, i - W + 1), i] of the values, i counted from 1
WindowAt(values, i, windowSize) ==
  Slice(values, IF i - windowSize + 1 > 1 THEN i - windowSize + 1 ELSE 1, i)

\* Whether the value at i lies more than threshold standard deviations from
\* the mean of its window, for a standard deviation other than zero, in
\* exact arithmetic.  With the window's values written as X[j] / D, length
\* L, sum S and sum of squares Q: value - mean = (L*X[L] - S) / (L*D) and
\* variance = (L*Q - S*S) / (L*D)^2.
ExactlyDeviates(values, i, threshold, windowSize) ==
  LET w == WindowAt(values, i, windowSize)
      L == Len(w)
      D == CHOOSE d \in {w[j][2] : j \in 1..L} : \A j \in 1..L : w[j][2] <= d
      X == [j \in 1..L |-> w[j][1] * (D \div w[j][2])]
      S == SumInts(X, L)
      Q == SumInts([j \in 1..L |-> X[j] * X[j]], L)
      deviation == L * X[L] - S
      spread == L * Q - S * S
  IN /\ spread # 0
     /\ threshold[2] * threshold[2] * deviation * deviation
          > threshold[1] * threshold[1] * spread

\* Index i of the field is in the list
Reported(result, readings, field, i) ==
  \E k \in 1..Len(result) :
     result[k].field = field /\ result[k].timeMinute = readings[i].timeMinute

\* The list reports exactly the indices that deviate
ReportsExactly ==
  \A f \in 1..Len(fieldsToAnalyze), i \in 1..Len(call.readings) :
     Reported(call.result, call.readings, fieldsToAnalyze[f], i)
       <=> ExactlyDeviates([k \in 1..Len(call.readings) |->
                              call.readings[k][fieldsToAnalyze[f]]],
                           i, call.threshold, call.windowSize)

\* Every anomaly carries mean -/+ threshold * stddev as its range and its
\* value lies outside it
RangesExplain ==
  \A k \in 1..Len(call.result) :
     LET a == call.result[k]
     IN /\ a.expectedRange.min
             = FSub(a.expectedMean, FMul(call.threshold, a.expectedStdDev))
        /\ a.expectedRange.max
             = FAdd(a.expectedMean, FMul(call.threshold, a.expectedStdDev))
        /\ FLess(a.value, a.expectedRange.min)
             \/ FGreater(a.value, a.expectedRange.max)

SortedByTime ==
  \A j, k \in 1..Len(call.result) :
     j < k => call.result[j].timeMinute <= call.result[k].timeMinute

\* C21: detectAnomalies reports index i of a field exactly when the
\* standard deviation of the window [max(0, i-W+1), i] is non-zero and
\* |value - mean| > threshold * stddev for the window's population mean and
\* standard deviation; every anomaly carries the range mean -/+
\* threshold * stddev with its value outside it; the list is in
\* non-decreasing timeMinute order.
C21_AnomaliesExact ==
  (call.op = "detectAnomalies" /\ call.windowSize >= 1)
    => ReportsExactly /\ RangesExplain /\ SortedByTime

====
